---- MODULE Spec2Model ----
(***************************************************************************)
(* A model of sphinx_autodoc_vyper: the regular-expression based           *)
(* extractors of VyperParser (parser.py) and the dataclasses they build,   *)
(* the documents of SphinxGenerator (generator.py) and _main (cli.py).     *)
(*                                                                         *)
(* Text.  A Python str is modelled as a sequence of tokens.  A token is    *)
(* either a maximal run of word characters (what \w+ matches: "owner",     *)
(* "uint256", "10"), written as the TLA+ string of that run, or a single   *)
(* character that is not a word character (":", "(", " ", "\n", ...).      *)
(* The one exception is QQQ, which stands for three double quotes.  The    *)
(* text a token sequence stands for is the concatenation of its tokens,    *)
(* so <<"a", ":", " ", "T">> is the str "a: T".  No two word tokens are    *)
(* ever adjacent in an input (they would be one run).  Where the code cuts *)
(* or joins a str inside a word (a slice, a replace, a pattern that ends   *)
(* in the middle of a word), the model cuts or joins the characters of the *)
(* token with Len, SubSeq and \o.  The characters of a text are those      *)
(* with a code point from 1 to 255, and the classes of characters (white   *)
(* space, word characters, line boundaries, characters repr escapes) are   *)
(* Python's for these.  An int is exact as long as it is below 2^31.       *)
(*                                                                         *)
(* Exceptions.  An operator that models code that can raise returns a      *)
(* record with a field err: "" when the code returns normally, and the     *)
(* name of the exception class otherwise.                                  *)
(*                                                                         *)
(* Files.  The contracts directory is a tree: a directory records whether  *)
(* it can be listed and the files and directories os.scandir lists in it,  *)
(* in the order listed.  What the generator makes and writes is on a disk: *)
(* the directories there are and the files written, each named by the      *)
(* names on the way to it from the root.                                   *)
(***************************************************************************)
EXTENDS Integers, Sequences, FiniteSets, TLC

\* Let(v, LAMBDA x : e) is e with x standing for the value v.
Let(v, Body(_)) == Body(v)

\* ------------------------------------------------------------------ text

QQQ == "\"\"\""

\* The characters that cannot be seen in print, in the order of their code
\* points: U+0001 to U+001F, and U+007F to U+00A0.
ControlChars ==
    << "", "", "", "", "", "", "", "", "\t", "\n", "", "\f", "\r", "", "", "", "", "", "", "", "", "", "", "", "", "", "", "", "", "", "" >>

HighControlChars ==
    << "", "", "", "", "", "", "", "", "", "", "", "", "", "", "", "", "", "", "", "", "", "", "", "", "", "", "", "", "", "", "", "", "", " " >>

\* chr(n) for the code point n of such a character, and for the soft
\* hyphen U+00AD.
Chr(n) == IF n < 32 THEN ControlChars[n]
          ELSE IF n = 173 THEN "­"
          ELSE HighControlChars[n - 126]

\* White space, as str.isspace(), str.strip(), int() and \s know it: tab,
\* line feed, vertical tab, form feed, carriage return, the separators
\* U+001C to U+001F, the space, U+0085 and the no-break space U+00A0.
SpaceTokens ==
    {Chr(9), Chr(10), Chr(11), Chr(12), Chr(13), Chr(28), Chr(29), Chr(30), Chr(31), " ",
     Chr(133), Chr(160)}

IsSpace(t) == t \in SpaceTokens

\* The line boundaries of str.splitlines().
LineEnds == {Chr(10), Chr(11), Chr(12), Chr(13), Chr(28), Chr(29), Chr(30), Chr(133)}

\* The characters \w matches: the letters and digits, which outside ASCII
\* are those of U+00AA to U+00FF, and the underscore.
WordChars ==
    {"0", "1", "2", "3", "4", "5", "6", "7", "8", "9", "A", "B", "C", "D", "E", "F", "G",
     "H", "I", "J", "K", "L", "M", "N", "O", "P", "Q", "R", "S", "T", "U", "V", "W", "X",
     "Y", "Z", "_", "a", "b", "c", "d", "e", "f", "g", "h", "i", "j", "k", "l", "m", "n",
     "o", "p", "q", "r", "s", "t", "u", "v", "w", "x", "y", "z"}
    \cup
    {"ª", "²", "³", "µ", "¹", "º", "¼", "½", "¾", "À", "Á", "Â", "Ã", "Ä", "Å", "Æ", "Ç",
     "È", "É", "Ê", "Ë", "Ì", "Í", "Î", "Ï", "Ð", "Ñ", "Ò", "Ó", "Ô", "Õ", "Ö", "Ø", "Ù",
     "Ú", "Û", "Ü", "Ý", "Þ", "ß", "à", "á", "â", "ã", "ä", "å", "æ", "ç", "è", "é", "ê",
     "ë", "ì", "í", "î", "ï", "ð", "ñ", "ò", "ó", "ô", "õ", "ö", "ø", "ù", "ú", "û", "ü",
     "ý", "þ", "ÿ"}

\* \w+ : a token is a string, and Len and SubSeq act on its characters.
IsWord(t) == Len(t) >= 1 /\ \A k \in 1..Len(t) : SubSeq(t, k, k) \in WordChars

\* str.startswith(w), str.endswith(w) and `w in str` for one token.
StartsWith(t, w) == Len(t) >= Len(w) /\ SubSeq(t, 1, Len(w)) = w

EndsWith(t, w) == Len(t) >= Len(w) /\ SubSeq(t, Len(t) - Len(w) + 1, Len(t)) = w

Contains(t, w) == \E k \in 1..(Len(t) - Len(w) + 1) : SubSeq(t, k, k + Len(w) - 1) = w

Digits == {"0", "1", "2", "3", "4", "5", "6", "7", "8", "9"}

DigitOf(c) ==
    CASE c = "0" -> 0 [] c = "1" -> 1 [] c = "2" -> 2 [] c = "3" -> 3 [] c = "4" -> 4
      [] c = "5" -> 5 [] c = "6" -> 6 [] c = "7" -> 7 [] c = "8" -> 8 [] OTHER -> 9

\* The words int() accepts: digits, with single underscores between them.
IsIntWord(w) ==
    /\ Len(w) >= 1
    /\ \A k \in 1..Len(w) : SubSeq(w, k, k) \in Digits \cup {"_"}
    /\ SubSeq(w, 1, 1) # "_" /\ SubSeq(w, Len(w), Len(w)) # "_"
    /\ ~Contains(w, "__")

\* int(w) for such a word.
RECURSIVE IntOf(_)
IntOf(w) ==
    IF Len(w) = 0 THEN 0
    ELSE IF SubSeq(w, Len(w), Len(w)) = "_" THEN IntOf(SubSeq(w, 1, Len(w) - 1))
    ELSE 10 * IntOf(SubSeq(w, 1, Len(w) - 1)) + DigitOf(SubSeq(w, Len(w), Len(w)))

\* str.strip()
FirstNonSpace(s) ==
    IF \E i \in 1..Len(s) : ~IsSpace(s[i])
    THEN CHOOSE i \in 1..Len(s) : ~IsSpace(s[i]) /\ \A j \in 1..(i-1) : IsSpace(s[j])
    ELSE 0

LastNonSpace(s) ==
    IF \E i \in 1..Len(s) : ~IsSpace(s[i])
    THEN CHOOSE i \in 1..Len(s) : ~IsSpace(s[i]) /\ \A j \in (i+1)..Len(s) : IsSpace(s[j])
    ELSE 0

Strip(s) ==
    IF FirstNonSpace(s) = 0 THEN << >>
    ELSE SubSeq(s, FirstNonSpace(s), LastNonSpace(s))

\* The least index >= i of s that holds token t, or 0.
IndexFrom(s, t, i) ==
    IF \E j \in i..Len(s) : s[j] = t
    THEN CHOOSE j \in i..Len(s) : s[j] = t /\ \A k \in i..(j-1) : s[k] # t
    ELSE 0

\* The least index >= i of s that holds token t, or Len(s) + 1: the next
\* place at which a pattern that begins with t can match.
NextToken(s, t, i) == IF IndexFrom(s, t, i) = 0 THEN Len(s) + 1 ELSE IndexFrom(s, t, i)

\* The least index >= i of s that holds a token ending in the characters w,
\* or Len(s) + 1: the next place at which a pattern that begins with w can
\* match, which may be inside a longer word.
NextTokenEnding(s, w, i) ==
    IF \E j \in i..Len(s) : EndsWith(s[j], w)
    THEN CHOOSE j \in i..Len(s) :
            EndsWith(s[j], w) /\ \A k \in i..(j - 1) : ~EndsWith(s[k], w)
    ELSE Len(s) + 1

\* The least index >= i of s that holds a word with a colon after it, or
\* Len(s) + 1: the next place at which a pattern that begins \w+: can match.
NextWordColon(s, i) ==
    IF \E j \in i..Len(s) : IsWord(s[j]) /\ j < Len(s) /\ s[j + 1] = ":"
    THEN CHOOSE j \in i..Len(s) :
            /\ IsWord(s[j]) /\ j < Len(s) /\ s[j + 1] = ":"
            /\ \A k \in i..(j - 1) : ~(IsWord(s[k]) /\ s[k + 1] = ":")
    ELSE Len(s) + 1

\* str.split(sep) for a one-token separator: always at least one piece.
RECURSIVE SplitFrom(_, _, _)
SplitFrom(s, sep, i) ==
    Let(IndexFrom(s, sep, i), LAMBDA j :
        IF j = 0 THEN << SubSeq(s, i, Len(s)) >>
        ELSE << SubSeq(s, i, j - 1) >> \o SplitFrom(s, sep, j + 1))

Split(s, sep) == SplitFrom(s, sep, 1)

\* "sep".join(parts)
RECURSIVE Join(_, _)
Join(parts, sep) ==
    IF parts = << >> THEN << >>
    ELSE IF Len(parts) = 1 THEN parts[1]
    ELSE parts[1] \o << sep >> \o Join(Tail(parts), sep)

\* The index of the first token at or after i that is not white space
\* (Len(s) + 1 when there is none): where a greedy \s* starting at i ends.
SkipSpace(s, i) ==
    IF \E j \in i..Len(s) : ~IsSpace(s[j])
    THEN CHOOSE j \in i..Len(s) : ~IsSpace(s[j]) /\ \A k \in i..(j-1) : IsSpace(s[k])
    ELSE Len(s) + 1

TokenAt(s, i) == IF i >= 1 /\ i <= Len(s) THEN s[i] ELSE ""

WordAt(s, i) == i >= 1 /\ i <= Len(s) /\ IsWord(s[i])

\* text[1:] and text[:-1]: the token at the end loses one character; QQQ
\* is three quote characters.
DropFirstChar(text) ==
    IF text = << >> THEN << >>
    ELSE IF Len(Head(text)) = 1 THEN Tail(text)
    ELSE IF Head(text) = QQQ THEN << "\"", "\"" >> \o Tail(text)
    ELSE << SubSeq(Head(text), 2, Len(Head(text))) >> \o Tail(text)

DropLastChar(text) ==
    IF text = << >> THEN << >>
    ELSE IF Len(text[Len(text)]) = 1 THEN SubSeq(text, 1, Len(text) - 1)
    ELSE IF text[Len(text)] = QQQ THEN SubSeq(text, 1, Len(text) - 1) \o << "\"", "\"" >>
    ELSE SubSeq(text, 1, Len(text) - 1)
         \o << SubSeq(text[Len(text)], 1, Len(text[Len(text)]) - 1) >>

\* The tokens of a text put together from pieces: words that have come to
\* stand side by side are one word.
RECURSIVE MergeWords(_)
MergeWords(text) ==
    IF Len(text) < 2 THEN text
    ELSE IF IsWord(text[1]) /\ IsWord(text[2])
    THEN MergeWords(<< text[1] \o text[2] >> \o SubSeq(text, 3, Len(text)))
    ELSE << text[1] >> \o MergeWords(Tail(text))

\* ----------------------------------------------------------- vocabulary

valid_ints ==
    {"int8", "int16", "int24", "int32", "int40", "int48", "int56", "int64",
     "int72", "int80", "int88", "int96", "int104", "int112", "int120", "int128",
     "int136", "int144", "int152", "int160", "int168", "int176", "int184", "int192",
     "int200", "int208", "int216", "int224", "int232", "int240", "int248", "int256"}

valid_uints ==
    {"uint8", "uint16", "uint24", "uint32", "uint40", "uint48", "uint56", "uint64",
     "uint72", "uint80", "uint88", "uint96", "uint104", "uint112", "uint120", "uint128",
     "uint136", "uint144", "uint152", "uint160", "uint168", "uint176", "uint184", "uint192",
     "uint200", "uint208", "uint216", "uint224", "uint232", "uint240", "uint248", "uint256"}

VALID_VYPER_TYPES == valid_ints \cup valid_uints \cup {"address", "bool", "Bytes", "String"}

\* IsValidType as it would be if the vocabulary had no Bytes and no String.
IsValidTypeNoStrings(text) ==
    Len(text) = 1 /\ text[1] \in VALID_VYPER_TYPES \ {"Bytes", "String"}

\* `text in VALID_VYPER_TYPES` for a str given as tokens: the str is one
\* word of the vocabulary (" uint256" and "" are not).
IsValidType(text) == Len(text) = 1 /\ text[1] \in VALID_VYPER_TYPES

\* ---------------------------------------------------------- dataclasses

\* A value of Type = Union[str, Tuple, DynArray] carries its class in kind.
StrType(text) == [kind |-> "str", text |-> text]

NoException == ""

\* Tuple(types): __post_init__ strips every element, then warns once for
\* every element that is not in the vocabulary.
RECURSIVE StripAll(_)
StripAll(types) ==
    IF types = << >> THEN << >>
    ELSE << Strip(Head(types)) >> \o StripAll(Tail(types))

RECURSIVE TupleWarnings(_)
TupleWarnings(types) ==
    IF types = << >> THEN << >>
    ELSE (IF IsValidType(Head(types)) THEN << >> ELSE << "Tuple" >>)
         \o TupleWarnings(Tail(types))

Tuple(types) ==
    Let(StripAll(types), LAMBDA stripped :
        [err |-> NoException,
         val |-> [kind |-> "Tuple", types |-> stripped],
         warns |-> TupleWarnings(stripped)])

\* Tuple.__len__
TupleLen(t) == Len(t.types)

\* Python's None.  A value that may be None is a record: None, or
\* StrType(text) for a str.
None == [kind |-> "None"]

\* Constant(name, type, value): type and value are a str or None.

Constant(name, type, value) ==
    [err |-> NoException,
     val |-> [kind |-> "Constant", name |-> name, type |-> type, value |-> value],
     warns |-> IF type # None /\ ~IsValidType(type.text) THEN << "Constant" >> ELSE << >>]

\* DynArray(type, max_length)
DynArray(type, max_length) ==
    [err |-> NoException,
     val |-> [kind |-> "DynArray", type |-> type, max_length |-> max_length],
     warns |-> IF IsValidType(type) THEN << >> ELSE << "DynArray" >>]

\* str.startswith("DynArray")
StartsWithDynArray(text) == Len(text) >= 1 /\ StartsWith(text[1], "DynArray")

\* The white space int() passes over at both ends of its text: that of
\* str.strip() without the separators U+001C to U+001F.
IntSpaceTokens == SpaceTokens \ {Chr(28), Chr(29), Chr(30), Chr(31)}

IntStrip(text) ==
    IF \A i \in 1..Len(text) : text[i] \in IntSpaceTokens THEN << >>
    ELSE SubSeq(text,
                CHOOSE i \in 1..Len(text) :
                    text[i] \notin IntSpaceTokens
                    /\ \A j \in 1..(i - 1) : text[j] \in IntSpaceTokens,
                CHOOSE i \in 1..Len(text) :
                    text[i] \notin IntSpaceTokens
                    /\ \A j \in (i + 1)..Len(text) : text[j] \in IntSpaceTokens)

\* int(text): white space around the digits is accepted, and a sign.
IntParses(text) ==
    Let(IntStrip(text), LAMBDA t :
        \/ Len(t) = 1 /\ IsIntWord(t[1])
        \/ Len(t) = 2 /\ t[1] \in {"-", "+"} /\ IsIntWord(t[2]))

IntValue(text) ==
    Let(IntStrip(text), LAMBDA t : IF Len(t) = 1 THEN IntOf(t[1])
                                   ELSE IF t[1] = "-" THEN 0 - IntOf(t[2]) ELSE IntOf(t[2]))

Raise(e) == [err |-> e, val |-> None, warns |-> << >>]

\* DynArrayOfPieces as it would be if int(max_length) were never tried: the
\* bound is always a Constant named by the text.
DynArrayOfPiecesNoInt(name, elem, max_length) ==
    Let(DynArray(elem, Constant(Strip(max_length), None, None).val), LAMBDA arr :
        [err |-> NoException,
         val |-> [name |-> name, type |-> arr.val],
         warns |-> arr.warns])

\* Lines 114-119: the DynArray of the two pieces of "T, N", whose bound is
\* int(N) when N parses and Constant(N.strip(), None, None) otherwise.
DynArrayOfPieces(name, elem, max_length) ==
    Let(IF IntParses(max_length)
        THEN DynArray(elem, [kind |-> "int", value |-> IntValue(max_length)])
        ELSE DynArray(elem, Constant(Strip(max_length), None, None).val), LAMBDA arr :
        [err |-> NoException,
         val |-> [name |-> name, type |-> arr.val],
         warns |-> arr.warns])

\* Parameter(name, type).__post_init__, lines 110-121.
ParameterPostInit(name, type) ==
    IF type.kind # "str" THEN Raise("AttributeError")      \* no startswith
    ELSE IF StartsWithDynArray(type.text) THEN
        IF type.text[Len(type.text)] # "]" THEN Raise("AssertionError")
        ELSE
            Let(Split(SubSeq(type.text, 1, Len(type.text) - 1), "["), LAMBDA byOpen :
                IF Len(byOpen) < 2 THEN Raise("IndexError")
                ELSE
                    Let(Split(byOpen[2], ","), LAMBDA pieces :
                        IF Len(pieces) # 2 THEN Raise("ValueError")
                        ELSE DynArrayOfPieces(name, pieces[1], pieces[2])))
    ELSE [err |-> NoException,
          val |-> [name |-> name, type |-> type],
          warns |-> IF IsValidType(type.text) THEN << >> ELSE << "Parameter" >>]

\* ------------------------------------------------------- _parse_params

\* PARAM_PATTERN = (\w+:\s*DynArray\[[^\]]+\]|\w+:\s*\w+) tried at token i:
\* the index of the last token of the match, or 0 when there is none.
\* The first alternative wins when both match.
ParamMatchEnd(s, i) ==
    IF ~(WordAt(s, i) /\ TokenAt(s, i + 1) = ":") THEN 0
    ELSE
        Let(SkipSpace(s, i + 2), LAMBDA j :
        Let(IndexFrom(s, "]", j + 2), LAMBDA k :
            IF TokenAt(s, j) = "DynArray" /\ TokenAt(s, j + 1) = "[" /\ k >= j + 3
            THEN k
            ELSE IF WordAt(s, j) THEN j
            ELSE 0))

\* re.finditer(PARAM_PATTERN, s): the matches, left to right, not
\* overlapping, each as the pair of its first and last token index.
RECURSIVE ParamMatchesFrom(_, _)
ParamMatchesFrom(s, i) ==
    IF i > Len(s) THEN << >>
    ELSE Let(ParamMatchEnd(s, i), LAMBDA e :
             IF e = 0 THEN ParamMatchesFrom(s, NextWordColon(s, i + 1))
             ELSE << << i, e >> >> \o ParamMatchesFrom(s, e + 1))

ParamMatches(s) == ParamMatchesFrom(s, 1)

\* Whether the str has a character at index 1, and whether it is "(".
IsOneChar(t) == Len(t) = 1

HasCharAt1(text) == DropFirstChar(text) # << >>

CharAt1IsParen(text) == TokenAt(DropFirstChar(text), 1) = "("

\* text[1:-1]
Slice1ToLast(text) == DropLastChar(DropFirstChar(text))

\* Lines 366-367 for one match, from the stripped name and type_str.
ParameterOf(name, type_str) ==
    IF ~HasCharAt1(type_str) THEN Raise("IndexError")
    ELSE IF CharAt1IsParen(type_str)
    THEN Let(Tuple(Split(Slice1ToLast(type_str), ",")), LAMBDA tup :
         Let(ParameterPostInit(name, tup.val), LAMBDA par :
             [par EXCEPT !.warns = tup.warns \o par.warns]))
    ELSE ParameterPostInit(name, StrType(type_str))

\* The body of the loop of _parse_params (lines 364-367) for one match.
ParseOneParam(group) ==
    Let(Split(group, ":"), LAMBDA parts :
        IF Len(parts) # 2 THEN Raise("ValueError")
        ELSE ParameterOf(Strip(parts[1]), Strip(parts[2])))

\* A list result with one more element in front.
Cons(one, rest) ==
    IF rest.err # NoException THEN [rest EXCEPT !.warns = one.warns \o rest.warns]
    ELSE [err |-> NoException,
          val |-> << one.val >> \o rest.val,
          warns |-> one.warns \o rest.warns]

\* _parse_params(params_str), lines 355-368: the Parameters of all the
\* matches, or the first exception raised.
RECURSIVE ParseParamList(_, _)
ParseParamList(s, ms) ==
    IF ms = << >> THEN [err |-> NoException, val |-> << >>, warns |-> << >>]
    ELSE Let(ParseOneParam(SubSeq(s, Head(ms)[1], Head(ms)[2])), LAMBDA one :
             IF one.err # NoException THEN one
             ELSE Cons(one, ParseParamList(s, Tail(ms))))

parse_params(params_str) ==
    IF params_str = << >> THEN [err |-> NoException, val |-> << >>, warns |-> << >>]
    ELSE ParseParamList(params_str, ParamMatches(params_str))

\* -------------------------------------------------- Function, lines 161-175

\* RemoveArrows as it would be if the arrow were left in the return type.
ArrowsKept(text) == text

\* The tokens left when every "->" is taken out, left to right.
RECURSIVE WithoutArrows(_)
WithoutArrows(text) ==
    IF Len(text) < 2 THEN text
    ELSE IF text[1] = "-" /\ text[2] = ">" THEN WithoutArrows(SubSeq(text, 3, Len(text)))
    ELSE << text[1] >> \o WithoutArrows(Tail(text))

\* str.replace("->", ""): the words on the two sides of an arrow become
\* one word.
RemoveArrows(text) == MergeWords(WithoutArrows(text))

\* Function(name, params, return_type, docstring) with its __post_init__:
\* a return type that starts with "(" becomes Tuple(return_type[1:-1].split(",")).
Function(name, params, return_type, docstring) ==
    IF return_type # None /\ TokenAt(return_type.text, 1) = "("
    THEN Let(Tuple(Split(Slice1ToLast(return_type.text), ",")), LAMBDA tup :
             [err |-> NoException,
              val |-> [name |-> name, params |-> params, return_type |-> tup.val,
                       docstring |-> docstring],
              warns |-> tup.warns])
    ELSE [err |-> NoException,
          val |-> [name |-> name, params |-> params, return_type |-> return_type,
                   docstring |-> docstring],
          warns |-> IF return_type = None THEN << >>
                    ELSE IF IsValidType(return_type.text) THEN << >>
                    ELSE << "Function" >>]

\* ------------------------------------------- FUNCTION_PATTERN, line 22
\* @(external|internal)\s+def\s+([^(]+)\(([^)]*)\)(\s*->\s*[^:]+)?:\s*("""[\s\S]*?""")?
\* tried at token i.  The record says whether it matches, and gives the
\* groups as token sequences (None for an optional group that took no
\* part) and the index of the last token of the match.

NoMatch == [matched |-> FALSE]

\* From the ":" that ends the signature, at token colon: \s*("""[\s\S]*?""")?
FunctionMatchTail(s, i, nameStart, p, q, ret, colon) ==
    Let(SkipSpace(s, colon + 1), LAMBDA o :
    Let(IF TokenAt(s, o) = QQQ THEN IndexFrom(s, QQQ, o + 1) ELSE 0, LAMBDA e :
        [matched |-> TRUE,
         g1 |-> << s[i + 1] >>,
         g2 |-> SubSeq(s, nameStart, p - 1),
         g3 |-> SubSeq(s, p + 1, q - 1),
         g4 |-> ret,
         g5 |-> IF e # 0 THEN StrType(SubSeq(s, o, e)) ELSE None,
         last |-> IF e # 0 THEN e ELSE o - 1]))

\* From the ")" that ends the parameters, at token q: (\s*->\s*[^:]+)?:
FunctionMatchReturn(s, i, nameStart, p, q) ==
    Let(SkipSpace(s, q + 1), LAMBDA r :
    Let(IF TokenAt(s, r) = "-" /\ TokenAt(s, r + 1) = ">"
        THEN IndexFrom(s, ":", r + 2) ELSE 0, LAMBDA c :
        IF c >= r + 3
        THEN FunctionMatchTail(s, i, nameStart, p, q, StrType(SubSeq(s, q + 1, c - 1)), c)
        ELSE IF TokenAt(s, q + 1) = ":"
        THEN FunctionMatchTail(s, i, nameStart, p, q, None, q + 1)
        ELSE NoMatch))

FunctionMatchAt(s, i) ==
    IF ~(TokenAt(s, i) = "@" /\ TokenAt(s, i + 1) \in {"external", "internal"}
         /\ IsSpace(TokenAt(s, i + 2)))
    THEN NoMatch
    ELSE
    Let(SkipSpace(s, i + 2), LAMBDA d :            \* the token "def"
    Let(IndexFrom(s, "(", d + 1), LAMBDA p :       \* the first "(" after it
        IF ~(TokenAt(s, d) = "def" /\ IsSpace(TokenAt(s, d + 1)) /\ p >= d + 3)
        THEN NoMatch
        ELSE
        Let(SkipSpace(s, d + 1), LAMBDA n :        \* after def\s+, greedy
        Let(IndexFrom(s, ")", p + 1), LAMBDA q :   \* the first ")"
            IF q = 0 THEN NoMatch
            ELSE FunctionMatchReturn(s, i, IF n < p THEN n ELSE p - 1, p, q)))))

\* re.finditer(FUNCTION_PATTERN, content)
RECURSIVE FunctionMatchesFrom(_, _)
FunctionMatchesFrom(s, i) ==
    IF i > Len(s) THEN << >>
    ELSE Let(FunctionMatchAt(s, i), LAMBDA m :
             IF m.matched THEN << m >> \o FunctionMatchesFrom(s, m.last + 1)
             ELSE FunctionMatchesFrom(s, NextToken(s, "@", i + 1)))

FunctionMatches(s) == FunctionMatchesFrom(s, 1)

\* The body of the loop of _extract_functions (lines 333-344) for one
\* match: the decorator and the Function built, or the exception.
FunctionOfMatch(m) ==
    Let(parse_params(Strip(m.g3)), LAMBDA params :
        IF params.err # NoException THEN params
        ELSE Let(Function(Strip(m.g2),
                          params.val,
                          IF m.g4 # None
                          THEN StrType(Strip(RemoveArrows(m.g4.text))) ELSE None,
                          IF m.g5 # None
                          THEN StrType(Strip(SubSeq(m.g5.text, 2, Len(m.g5.text) - 1)))
                          ELSE None), LAMBDA fn :
                 [err |-> NoException,
                  val |-> [decorator |-> Strip(m.g1), function |-> fn.val],
                  warns |-> params.warns \o fn.warns]))

\* ------------------------------ _extract_contract_docstring, lines 239-242
\* re.search(r'^"""(.*?)"""', content, DOTALL | MULTILINE): the first QQQ
\* at the start of a line that has a QQQ after it.

AtLineStart(s, i) == i = 1 \/ TokenAt(s, i - 1) = "\n"

DocstringStart(s) ==
    IF \E i \in 1..Len(s) : AtLineStart(s, i) /\ s[i] = QQQ /\ IndexFrom(s, QQQ, i + 1) # 0
    THEN CHOOSE i \in 1..Len(s) :
            /\ AtLineStart(s, i) /\ s[i] = QQQ /\ IndexFrom(s, QQQ, i + 1) # 0
            /\ \A j \in 1..(i - 1) :
                 ~(AtLineStart(s, j) /\ s[j] = QQQ /\ IndexFrom(s, QQQ, j + 1) # 0)
    ELSE 0

\* extract_contract_docstring as it would be if a text with no docstring
\* gave the empty str and not None.
extract_contract_docstring_empty(content) ==
    Let(DocstringStart(content), LAMBDA i :
        IF i = 0 THEN StrType(<< >>)
        ELSE StrType(Strip(SubSeq(content, i + 1, IndexFrom(content, QQQ, i + 1) - 1))))

extract_contract_docstring(content) ==
    Let(DocstringStart(content), LAMBDA i :
        IF i = 0 THEN None
        ELSE StrType(Strip(SubSeq(content, i + 1, IndexFrom(content, QQQ, i + 1) - 1))))

\* ------------------------------------------ _extract_enums, lines 244-257
\* ENUM_PATTERN = enum\s+(\w+)\s*:\s*([\w\s\n]+)

\* The index of the last token of the run of word and space tokens that
\* starts at i (i - 1 when the run is empty).
WordSpaceRunEnd(s, i) ==
    IF \E j \in i..Len(s) : ~(IsWord(s[j]) \/ IsSpace(s[j]))
    THEN (CHOOSE j \in i..Len(s) :
             /\ ~(IsWord(s[j]) \/ IsSpace(s[j]))
             /\ \A k \in i..(j - 1) : IsWord(s[k]) \/ IsSpace(s[k])) - 1
    ELSE IF i > Len(s) THEN i - 1 ELSE Len(s)

EnumMatchAt(s, i) ==
    Let(SkipSpace(s, i + 1), LAMBDA n :
    Let(SkipSpace(s, n + 1), LAMBDA c :
    Let(WordSpaceRunEnd(s, c + 1), LAMBDA e :
    Let(SkipSpace(s, c + 1), LAMBDA b :
        IF EndsWith(TokenAt(s, i), "enum") /\ IsSpace(TokenAt(s, i + 1)) /\ WordAt(s, n)
           /\ TokenAt(s, c) = ":" /\ e >= c + 1
        THEN [matched |-> TRUE,
              g1 |-> << s[n] >>,
              g2 |-> IF b <= e THEN SubSeq(s, b, e) ELSE << s[e] >>,
              last |-> e]
        ELSE NoMatch))))

RECURSIVE EnumMatchesFrom(_, _)
EnumMatchesFrom(s, i) ==
    IF i > Len(s) THEN << >>
    ELSE Let(EnumMatchAt(s, i), LAMBDA m :
             IF m.matched THEN << m >> \o EnumMatchesFrom(s, m.last + 1)
             ELSE EnumMatchesFrom(s, NextTokenEnding(s, "enum", i + 1)))

\* [value.strip() for value in text.split("\n") if value.strip()]
RECURSIVE NonBlankStripped(_)
NonBlankStripped(pieces) ==
    IF pieces = << >> THEN << >>
    ELSE Let(Strip(Head(pieces)), LAMBDA value :
             (IF value = << >> THEN << >> ELSE << value >>)
             \o NonBlankStripped(Tail(pieces)))

RECURSIVE EnumsOf(_)
EnumsOf(ms) ==
    IF ms = << >> THEN << >>
    ELSE << [name |-> Strip(Head(ms).g1),
             values |-> NonBlankStripped(Split(Head(ms).g2, "\n"))] >>
         \o EnumsOf(Tail(ms))

extract_enums(content) == EnumsOf(EnumMatchesFrom(content, 1))

\* -------------------------------------- _extract_constants, lines 259-268
\* CONSTANT_PATTERN = (\w+):\s*constant\((\w+)\)\s*=\s*(.*?)$  with MULTILINE

LineEnd(s, i) ==
    Let(IndexFrom(s, "\n", i), LAMBDA j : IF j = 0 THEN Len(s) ELSE j - 1)

ConstantMatchAt(s, i) ==
    Let(SkipSpace(s, i + 2), LAMBDA k :
    Let(SkipSpace(s, k + 4), LAMBDA q :
    Let(SkipSpace(s, q + 1), LAMBDA v :
        IF WordAt(s, i) /\ TokenAt(s, i + 1) = ":" /\ TokenAt(s, k) = "constant"
           /\ TokenAt(s, k + 1) = "(" /\ WordAt(s, k + 2) /\ TokenAt(s, k + 3) = ")"
           /\ TokenAt(s, q) = "="
        THEN Let(LineEnd(s, v), LAMBDA e :
             [matched |-> TRUE,
              g1 |-> << s[i] >>,
              g2 |-> << s[k + 2] >>,
              g3 |-> SubSeq(s, v, e),
              last |-> IF v > Len(s) THEN Len(s) ELSE e])
        ELSE NoMatch)))

RECURSIVE ConstantMatchesFrom(_, _)
ConstantMatchesFrom(s, i) ==
    IF i > Len(s) THEN << >>
    ELSE Let(ConstantMatchAt(s, i), LAMBDA m :
             IF m.matched THEN << m >> \o ConstantMatchesFrom(s, m.last + 1)
             ELSE ConstantMatchesFrom(s, NextWordColon(s, i + 1)))

RECURSIVE ConstantsOf(_)
ConstantsOf(ms) ==
    IF ms = << >> THEN [err |-> NoException, val |-> << >>, warns |-> << >>]
    ELSE Cons(Constant(Strip(Head(ms).g1), StrType(Strip(Head(ms).g2)),
                       StrType(Strip(Head(ms).g3))),
              ConstantsOf(Tail(ms)))

extract_constants(content) == ConstantsOf(ConstantMatchesFrom(content, 1))

\* ---------------------------------------- _extract_structs, lines 304-313
\* STRUCT_PATTERN = struct\s+(\w+)\s*{([^}]*)}

StructMatchAt(s, i) ==
    Let(SkipSpace(s, i + 1), LAMBDA n :
    Let(SkipSpace(s, n + 1), LAMBDA o :
    Let(IndexFrom(s, "}", o + 1), LAMBDA c :
        IF EndsWith(TokenAt(s, i), "struct") /\ IsSpace(TokenAt(s, i + 1)) /\ WordAt(s, n)
           /\ TokenAt(s, o) = "{" /\ c # 0
        THEN [matched |-> TRUE,
              g1 |-> << s[n] >>,
              g2 |-> SubSeq(s, o + 1, c - 1),
              last |-> c]
        ELSE NoMatch)))

RECURSIVE StructMatchesFrom(_, _)
StructMatchesFrom(s, i) ==
    IF i > Len(s) THEN << >>
    ELSE Let(StructMatchAt(s, i), LAMBDA m :
             IF m.matched THEN << m >> \o StructMatchesFrom(s, m.last + 1)
             ELSE StructMatchesFrom(s, NextTokenEnding(s, "struct", i + 1)))

\* Struct(name, fields) of one match, as a result with the warnings of
\* its fields.
StructOf(name, fields) ==
    [err |-> NoException,
     val |-> [name |-> name, fields |-> fields.val],
     warns |-> fields.warns]

RECURSIVE StructsOf(_)
StructsOf(ms) ==
    IF ms = << >> THEN [err |-> NoException, val |-> << >>, warns |-> << >>]
    ELSE Let(parse_params(Strip(Head(ms).g2)), LAMBDA fields :
             IF fields.err # NoException THEN fields
             ELSE Cons(StructOf(Strip(Head(ms).g1), fields), StructsOf(Tail(ms))))

extract_structs(content) == StructsOf(StructMatchesFrom(content, 1))

\* ----------------------------------------- _extract_events, lines 315-324
\* EVENT_PATTERN = event\s+(\w+)\((.*?)\).  The method is a staticmethod
\* whose body names `self`: building the Event of the first match raises
\* NameError; with no match the comprehension is empty.

EventMatchAt(s, i) ==
    Let(SkipSpace(s, i + 1), LAMBDA n :
    Let(IndexFrom(s, ")", n + 2), LAMBDA c :
        /\ EndsWith(TokenAt(s, i), "event") /\ IsSpace(TokenAt(s, i + 1)) /\ WordAt(s, n)
        /\ TokenAt(s, n + 1) = "(" /\ c # 0 /\ c <= LineEnd(s, n + 2)))

extract_events(content) ==
    IF \E i \in 1..Len(content) : EventMatchAt(content, i)
    THEN Raise("NameError")
    ELSE [err |-> NoException, val |-> << >>, warns |-> << >>]

\* ------------------------------------ _parse_event_params, lines 370-382

\* EventParameter(name, type, indexed) with its __post_init__ (lines 133-142).
EventParameter(name, type, indexed) ==
    [err |-> NoException,
     val |-> [name |-> name, type |-> type, indexed |-> indexed],
     warns |-> IF IsValidType(type) THEN << >> ELSE << "EventParameter" >>]

\* "indexed" in type
ContainsIndexed(type) == \E i \in 1..Len(type) : Contains(type[i], "indexed")

\* type.startswith("indexed(") and type.endswith(")")
IsIndexedCall(type) ==
    /\ Len(type) >= 2 /\ type[1] = "indexed" /\ type[2] = "("
    /\ type[Len(type)] = ")"

\* Lines 377-381 for the stripped type of one field.
EventParameterOf(name, type) ==
    IF ContainsIndexed(type)
    THEN IF IsIndexedCall(type)
         THEN EventParameter(Strip(name), SubSeq(type, 3, Len(type) - 1), TRUE)
         ELSE Raise("AssertionError")
    ELSE EventParameter(Strip(name), type, FALSE)

\* The body of the loop (lines 375-381) for one line of the field list.
ParseOneEventParam(param_str) ==
    Let(Split(Strip(param_str), ":"), LAMBDA parts :
        IF Len(parts) # 2 THEN Raise("ValueError")
        ELSE EventParameterOf(parts[1], Strip(parts[2])))

RECURSIVE ParseEventParamList(_)
ParseEventParamList(lines) ==
    IF lines = << >> THEN [err |-> NoException, val |-> << >>, warns |-> << >>]
    ELSE Let(ParseOneEventParam(Head(lines)), LAMBDA one :
             IF one.err # NoException THEN one
             ELSE Cons(one, ParseEventParamList(Tail(lines))))

\* _parse_event_params(params_str): one EventParameter per piece of
\* params_str.split("\n"), or the first exception raised.
parse_event_params(params_str) == ParseEventParamList(Split(params_str, "\n"))

\* --------------------------------------- _extract_variables, lines 270-302

\* The least index >= i of s that holds a line boundary, or Len(s) + 1.
NextLineEnd(s, i) ==
    IF \E j \in i..Len(s) : s[j] \in LineEnds
    THEN CHOOSE j \in i..Len(s) : s[j] \in LineEnds /\ \A k \in i..(j - 1) : s[k] \notin LineEnds
    ELSE Len(s) + 1

\* str.splitlines(): the pieces between the line boundaries, of which a
\* carriage return with a line feed after it is one; no empty last piece
\* after a final boundary, and no piece at all for the empty str.
RECURSIVE SplitLinesFrom(_, _)
SplitLinesFrom(s, i) ==
    IF i > Len(s) THEN << >>
    ELSE Let(NextLineEnd(s, i), LAMBDA j :
             << SubSeq(s, i, j - 1) >>
             \o SplitLinesFrom(s, IF TokenAt(s, j) = "\r" /\ TokenAt(s, j + 1) = "\n"
                                  THEN j + 2 ELSE j + 1))

SplitLines(content) == SplitLinesFrom(content, 1)

\* stripped_line.startswith("@") or stripped_line.startswith("def ")
IsFunctionStart(stripped_line) ==
    \/ TokenAt(stripped_line, 1) = "@"
    \/ TokenAt(stripped_line, 1) = "def" /\ TokenAt(stripped_line, 2) = " "

\* FlagAfter as it would be if only a decorator line, and not a line that
\* starts with "def ", were taken for the start of a function.
FlagAfterDecoratorOnly(inside_function, stripped_line) ==
    IF TokenAt(stripped_line, 1) = "@" THEN TRUE
    ELSE IF stripped_line = << >> THEN FALSE
    ELSE inside_function

\* FlagAfter as it would be if a blank line did not reset the flag.
FlagAfterNoReset(inside_function, stripped_line) ==
    IsFunctionStart(stripped_line) \/ inside_function

\* The flag after the if/elif of lines 281-284 for one line.
FlagAfter(inside_function, stripped_line) ==
    IF IsFunctionStart(stripped_line) THEN TRUE
    ELSE IF stripped_line = << >> THEN FALSE
    ELSE inside_function

\* IsKept as it would be if the flag were not looked at.
IsKeptNonBlank(flag, stripped_line) == stripped_line # << >>

\* Line 287: whether the line is appended to contract_level_lines.
IsKept(flag, stripped_line) == ~flag /\ stripped_line # << >>

\* VARIABLE_PATTERN = (\w+):\s*(public\((\w+)\)|(\w+)) tried at token i.
VariableMatchAt(s, i) ==
    IF ~(WordAt(s, i) /\ TokenAt(s, i + 1) = ":") THEN NoMatch
    ELSE
        Let(SkipSpace(s, i + 2), LAMBDA j :
            IF TokenAt(s, j) = "public" /\ TokenAt(s, j + 1) = "(" /\ WordAt(s, j + 2)
               /\ TokenAt(s, j + 3) = ")"
            THEN [matched |-> TRUE, first |-> i,
                  g1 |-> << s[i] >>,
                  g2 |-> StrType(SubSeq(s, j, j + 3)),
                  g3 |-> StrType(<< s[j + 2] >>),
                  g4 |-> None,
                  last |-> j + 3]
            ELSE IF WordAt(s, j)
            THEN [matched |-> TRUE, first |-> i,
                  g1 |-> << s[i] >>,
                  g2 |-> StrType(<< s[j] >>),
                  g3 |-> None,
                  g4 |-> StrType(<< s[j] >>),
                  last |-> j]
            ELSE NoMatch)

RECURSIVE VariableMatchesFrom(_, _)
VariableMatchesFrom(s, i) ==
    IF i > Len(s) THEN << >>
    ELSE Let(VariableMatchAt(s, i), LAMBDA m :
             IF m.matched THEN << m >> \o VariableMatchesFrom(s, m.last + 1)
             ELSE VariableMatchesFrom(s, NextWordColon(s, i + 1)))

\* Python truth of a match group: a group that took no part is None,
\* and the empty str is false as well.
Truthy(g) == g # None /\ g.text # << >>

\* Lines 294-300: the Variable of one match.  The visibility tests
\* group 2, the whole type expression, which every match has.
VariableOfMatch(m) ==
    [name |-> Strip(m.g1),
     type |-> IF Truthy(m.g3) THEN Strip(m.g3.text) ELSE Strip(m.g4.text),
     visibility |-> IF Truthy(m.g2) THEN "public" ELSE "private"]

\* Variable.__post_init__, lines 64-66
VariableWarnings(v) == IF IsValidType(v.type) THEN << >> ELSE << "Variable" >>

\* Variable(...) of one match, as a result with its warning.
Variable(v) == [err |-> NoException, val |-> v, warns |-> VariableWarnings(v)]

RECURSIVE VariablesOf(_)
VariablesOf(ms) ==
    IF ms = << >> THEN [err |-> NoException, val |-> << >>, warns |-> << >>]
    ELSE Cons(Variable(VariableOfMatch(Head(ms))), VariablesOf(Tail(ms)))

\* The number of the kept line in which token i of the joined text lies.
KeptLineOfToken(filtered_content, i) ==
    1 + Cardinality({j \in 1..(i - 1) : filtered_content[j] = "\n"})

\* ================================================================ state

VARIABLES
    entry,                 \* the function the run calls
    pc,                    \* where the run is
    files,                 \* the files os.walk yields: [name, text]
    fidx,                  \* parse_contracts: the file the loop is at
    content,               \* the text being parsed
    fi,                    \* _extract_functions: the match the loop is at
    external_functions,
    internal_functions,
    kw,                    \* _parse_contract: the arguments evaluated so far
    li,                    \* _extract_variables: the line the loop is at
    inside_function,
    contract_level_lines,
    origin,                \* history: the source line of each kept line
    variables,             \* the list _extract_variables returns
    var_origin,            \* history: the source line each Variable's match starts in
    contracts,             \* the list parse_contracts builds
    arg,                   \* the argument of _parse_params or of Function
    result,                \* what that call returned or raised
    raised,                \* the exception that ended the run, or NoException
    warnings,              \* what logger.warning was called for, in order
    contracts_dir_exists,  \* contracts_dir.exists()
    tree,                  \* the contracts directory: what each of its directories lists
    disk,                  \* the directories there are, and the files written:
                           \* [dir, name, content]
    ci,                    \* _generate_contract_docs: the contract the loop is at
    resolved               \* the Types a type expression was resolved to, in order

vars == << entry, pc, files, fidx, content, fi, external_functions, internal_functions,
           kw, li, inside_function, contract_level_lines, origin, variables, var_origin,
           contracts, arg, result, raised, warnings, contracts_dir_exists, tree, disk, ci,
           resolved >>

scanVars == << li, inside_function, contract_level_lines, origin >>
funcVars == << fi, external_functions, internal_functions >>
callVars == << arg, result >>
outVars == << contracts_dir_exists, tree, disk, ci, resolved >>

NoKw == [docstring |-> None, enums |-> << >>, structs |-> << >>, events |-> << >>,
         constants |-> << >>]

NoResult == [err |-> NoException, val |-> None, warns |-> << >>]

\* A directory below the contracts directory, or that directory itself:
\* whether os.scandir can list it, and the files and the directories it
\* lists, each in the order listed.  A file is [name, text], a directory
\* in a directory is [name, dir].
Directory(listable, fs, ds) == [listable |-> listable, files |-> fs, dirs |-> ds]

\* A directory of files only, which can be listed.
FlatDirectory(fs) == Directory(TRUE, fs, << >>)

\* The concatenation of the elements of a sequence of sequences.
RECURSIVE Flatten(_)
Flatten(parts) ==
    IF parts = << >> THEN << >> ELSE Head(parts) \o Flatten(Tail(parts))

\* Before a run there is the directory the output directory is in, and no
\* file has been written.
InitialDisk ==
    [dirs |-> {<< >>, << << "work" >> >>}, files |-> << >>]

\* The variables of a run, but for the contracts directory, at their values
\* before anything has run.
IdleRun ==
    /\ fidx = 1
    /\ fi = 1 /\ external_functions = << >> /\ internal_functions = << >>
    /\ kw = NoKw
    /\ li = 1 /\ inside_function = FALSE /\ contract_level_lines = << >> /\ origin = << >>
    /\ variables = << >> /\ var_origin = << >>
    /\ contracts = << >>
    /\ result = NoResult
    /\ raised = NoException /\ warnings = << >>
    /\ disk = InitialDisk /\ ci = 1
    /\ resolved = << >>

\* The variables at their values before anything has run, in a contracts
\* directory that exists and holds the files and no directory; files,
\* content and arg are the inputs of a run.
Idle ==
    /\ IdleRun
    /\ contracts_dir_exists = TRUE
    /\ tree = FlatDirectory(files)

\* --------------------------------------------------------------- inputs

\* All sequences over S of length at most n.
SeqsUpTo(S, n) == UNION {[1..k -> S] : k \in 0..n}

\* The longest source text of a run of parse_contracts, in lines.
MaxLines == 3

\* @external def f(a: address) -> bool:
LineExternalF ==
    <<"@", "external", " ", "def", " ", "f", "(", "a", ":", " ", "address", ")", " ", "-", ">", " ", "bool", ":">>

\* @internal def g():
LineInternalG ==
    <<"@", "internal", " ", "def", " ", "g", "(", ")", ":">>

\* @external def h(b: DynArray[uint256, 10]):
LineExternalH ==
    <<"@", "external", " ", "def", " ", "h", "(", "b", ":", " ", "DynArray", "[", "uint256", ",", " ", "10", "]", ")", ":">>

\* @external def m(a: DynArray[uint256, 10, b: address):
LineMalformed ==
    <<"@", "external", " ", "def", " ", "m", "(", "a", ":", " ", "DynArray", "[", "uint256", ",", " ", "10", ",", " ", "b", ":", " ", "address", ")", ":">>

\* @internal def k(a: T, b: address):
LineOneChar ==
    <<"@", "internal", " ", "def", " ", "k", "(", "a", ":", " ", "T", ",", " ", "b", ":", " ", "address", ")", ":">>

\* owner: public(address)
LineOwner ==
    <<"owner", ":", " ", "public", "(", "address", ")">>

\* """Token"""
LineDoc ==
    <<QQQ, "Token", QQQ>>

\* MAX: constant(uint256) = 10
LineConstant ==
    <<"MAX", ":", " ", "constant", "(", "uint256", ")", " ", "=", " ", "10">>

LineBlank == << >>

SourceLines ==
    {LineExternalF, LineInternalG, LineExternalH, LineMalformed, LineOneChar,
     LineOwner, LineDoc, LineConstant, LineBlank}

SourceTexts == {Join(ls, "\n") : ls \in SeqsUpTo(SourceLines, MaxLines)}

VyFile(text) == [name |-> << "token", ".", "vy" >>, text |-> text]

OtherFile == [name |-> << "README", ".", "md" >>, text |-> << "Token" >>]

\* The directories of the runs: one contract file with any of the source
\* texts, and, for the texts of one line, a file of another kind before it.
Directories ==
    {<< VyFile(t) >> : t \in SourceTexts}
    \cup {<< OtherFile, VyFile(t) >> : t \in SourceLines}

\* ------------------------------------------- parse_contracts, lines 205-214

\* file.endswith(".vy")
EndsWithVy(name) ==
    Len(name) >= 2 /\ name[Len(name) - 1] = "." /\ name[Len(name)] = "vy"

\* os.path.basename(file_path): what follows the last "/".
RECURSIVE Basename(_)
Basename(path) ==
    IF \E i \in 1..Len(path) : path[i] = "/"
    THEN Basename(SubSeq(path, IndexFrom(path, "/", 1) + 1, Len(path)))
    ELSE path

\* The tokens left when every ".vy" is taken out, left to right.
RECURSIVE WithoutVy(_)
WithoutVy(name) ==
    IF Len(name) < 2 THEN name
    ELSE IF name[1] = "." /\ StartsWith(name[2], "vy")
    THEN (IF Len(name[2]) = 2 THEN << >> ELSE << SubSeq(name[2], 3, Len(name[2])) >>)
         \o WithoutVy(SubSeq(name, 3, Len(name)))
    ELSE << name[1] >> \o WithoutVy(Tail(name))

\* str.replace(".vy", "")
RemoveVy(name) == MergeWords(WithoutVy(name))

\* os.walk(self.contracts_dir) of line 208, with os.path.join(root, file)
\* of line 211, from a directory whose path is root: the files the directory
\* lists, then the walk of each directory it lists; a directory that cannot
\* be listed yields nothing (onerror is None: the error of os.scandir is
\* passed over).
RECURSIVE Walk(_, _)
Walk(dir, root) ==
    IF ~dir.listable THEN << >>
    ELSE [k \in 1..Len(dir.files) |-> [dir.files[k] EXCEPT !.name = root \o @]]
         \o Flatten([k \in 1..Len(dir.dirs) |->
                        Walk(dir.dirs[k].dir, root \o dir.dirs[k].name \o << "/" >>)])

\* A file that is not a contract is passed over.
SkipFile ==
    /\ pc = "walk" /\ fidx <= Len(files) /\ ~EndsWithVy(files[fidx].name)
    /\ fidx' = fidx + 1
    /\ UNCHANGED << outVars, entry, pc, files, content, funcVars, kw, scanVars, variables,
                    var_origin, contracts, callVars, raised, warnings >>

\* f.read() of a file opened in text mode (lines 218-219): a carriage
\* return with a line feed after it, and a carriage return alone, are read
\* as one line feed.
UniversalNewlines(text) ==
    SelectSeq([i \in 1..Len(text) |->
                  IF text[i] # "\r" THEN text[i]
                  ELSE IF i < Len(text) /\ text[i + 1] = "\n" THEN "" ELSE "\n"],
              LAMBDA t : t # "")

\* _parse_contract is entered: the file is read (lines 218-219).
ReadFile ==
    /\ pc = "walk" /\ fidx <= Len(files) /\ EndsWithVy(files[fidx].name)
    /\ content' = UniversalNewlines(files[fidx].text)
    /\ pc' = "functions"
    /\ fi' = 1 /\ external_functions' = << >> /\ internal_functions' = << >>
    /\ kw' = NoKw
    /\ UNCHANGED << outVars, entry, files, fidx, scanVars, variables, var_origin, contracts,
                    callVars, raised, warnings >>

\* return contracts
ReturnContracts ==
    /\ pc = "walk" /\ fidx > Len(files)
    /\ pc' = IF entry = "_main" THEN "generator" ELSE "done"
    /\ UNCHANGED << outVars, entry, files, fidx, content, funcVars, kw, scanVars, variables,
                    var_origin, contracts, callVars, raised, warnings >>

\* ------------------------------------------- _parse_contract, lines 216-237

\* Lines 339-349 for one match whose Function was built or raised.
AppendFunction(r) ==
    IF r.err # NoException
    THEN /\ raised' = r.err /\ pc' = "raised"
         /\ warnings' = warnings \o r.warns
         /\ UNCHANGED funcVars
    ELSE /\ fi' = fi + 1
         /\ IF r.val.decorator = << "external" >>
            THEN /\ external_functions' = Append(external_functions, r.val.function)
                 /\ UNCHANGED internal_functions
            ELSE /\ internal_functions' = Append(internal_functions, r.val.function)
                 /\ UNCHANGED external_functions
         /\ warnings' = warnings \o r.warns
         /\ UNCHANGED << pc, raised >>

\* One turn of the loop of _extract_functions (lines 332-351).
ExtractFunction ==
    /\ pc = "functions" /\ fi <= Len(FunctionMatches(content))
    /\ AppendFunction(FunctionOfMatch(FunctionMatches(content)[fi]))
    /\ UNCHANGED << outVars, entry, files, fidx, content, kw, scanVars, variables, var_origin,
                    contracts, callVars >>

\* The loop is over; docstring=self._extract_contract_docstring(content)
ExtractDocstring ==
    /\ pc = "functions" /\ fi > Len(FunctionMatches(content))
    /\ kw' = [kw EXCEPT !.docstring = extract_contract_docstring(content)]
    /\ pc' = "enums"
    /\ UNCHANGED << outVars, entry, files, fidx, content, funcVars, scanVars, variables,
                    var_origin, contracts, callVars, raised, warnings >>

\* enums=self._extract_enums(content)
ExtractEnums ==
    /\ pc = "enums"
    /\ kw' = [kw EXCEPT !.enums = extract_enums(content)]
    /\ pc' = "structs"
    /\ UNCHANGED << outVars, entry, files, fidx, content, funcVars, scanVars, variables,
                    var_origin, contracts, callVars, raised, warnings >>

\* A keyword argument of Contract(...) is evaluated to r: the call goes
\* on to the next one, at pc value next, or the exception leaves it.
Keyword(field, r, next) ==
    IF r.err # NoException
    THEN /\ raised' = r.err /\ pc' = "raised"
         /\ warnings' = warnings \o r.warns /\ UNCHANGED kw
    ELSE /\ kw' = [kw EXCEPT ![field] = r.val]
         /\ warnings' = warnings \o r.warns
         /\ pc' = next /\ UNCHANGED raised

\* structs=self._extract_structs(content)
ExtractStructs ==
    /\ pc = "structs"
    /\ Keyword("structs", extract_structs(content), "events")
    /\ UNCHANGED << outVars, entry, files, fidx, content, funcVars, scanVars, variables,
                    var_origin, contracts, callVars >>

\* events=self._extract_events(content)
ExtractEvents ==
    /\ pc = "events"
    /\ Keyword("events", extract_events(content), "constants")
    /\ UNCHANGED << outVars, entry, files, fidx, content, funcVars, scanVars, variables,
                    var_origin, contracts, callVars >>

\* constants=self._extract_constants(content); then _extract_variables
\* is entered (lines 274-276).
ExtractConstants ==
    /\ pc = "constants"
    /\ Keyword("constants", extract_constants(content), "scan")
    /\ li' = 1 /\ inside_function' = FALSE /\ contract_level_lines' = << >>
    /\ origin' = << >>
    /\ UNCHANGED << outVars, entry, files, fidx, content, funcVars, variables, var_origin,
                    contracts, callVars >>

\* Lines 280-288 for one line.
ScanStripped(stripped_line, flag) ==
    /\ inside_function' = flag
    /\ IF IsKept(flag, stripped_line)
       THEN /\ contract_level_lines' = Append(contract_level_lines, stripped_line)
            /\ origin' = Append(origin, li)
       ELSE UNCHANGED << contract_level_lines, origin >>

\* One turn of the loop of _extract_variables (lines 278-288).
ScanLine ==
    /\ pc = "scan" /\ li <= Len(SplitLines(content))
    /\ Let(Strip(SplitLines(content)[li]), LAMBDA stripped_line :
           ScanStripped(stripped_line, FlagAfter(inside_function, stripped_line)))
    /\ li' = li + 1
    /\ UNCHANGED << outVars, entry, pc, files, fidx, content, funcVars, kw, variables,
                    var_origin, contracts, callVars, raised, warnings >>

\* The source line in which each match of the joined text starts.
OriginsOf(filtered_content, ms) ==
    [k \in 1..Len(ms) |-> origin[KeptLineOfToken(filtered_content, ms[k].first)]]

\* Lines 291-302 on the joined text.
MatchFiltered(filtered_content, ms) ==
    Let(VariablesOf(ms), LAMBDA r :
        /\ variables' = r.val
        /\ warnings' = warnings \o r.warns
        /\ var_origin' = OriginsOf(filtered_content, ms))

\* The loop is over: lines 291-302 build the Variables and return them.
MatchVariables ==
    /\ pc = "scan" /\ li > Len(SplitLines(content))
    /\ Let(Join(contract_level_lines, "\n"), LAMBDA filtered_content :
           MatchFiltered(filtered_content, VariableMatchesFrom(filtered_content, 1)))
    /\ pc' = IF entry = "_extract_variables" THEN "done" ELSE "build"
    /\ UNCHANGED << outVars, entry, files, fidx, content, funcVars, kw, scanVars, contracts,
                    callVars, raised >>

\* Contract(name, path, docstring, enums, structs, events, constants,
\* variables, external_functions, internal_functions), lines 178-191: the
\* dataclass keeps its ten arguments as given; none has a default.
Contract(name, path, docstring, enums, structs, events, constants, vs, efs, ifs) ==
    [name |-> name, path |-> path, docstring |-> docstring, enums |-> enums,
     structs |-> structs, events |-> events, constants |-> constants, variables |-> vs,
     external_functions |-> efs, internal_functions |-> ifs]

\* return Contract(...) and contracts.append(contract), lines 226-237, 213.
BuildContract ==
    /\ pc = "build"
    /\ contracts' = Append(contracts,
            Contract(RemoveVy(Basename(files[fidx].name)), files[fidx].name,
                     kw.docstring, kw.enums, kw.structs, kw.events, kw.constants,
                     variables, external_functions, internal_functions))
    /\ fidx' = fidx + 1
    /\ pc' = "walk"
    /\ UNCHANGED << outVars, entry, files, content, funcVars, kw, scanVars, variables,
                    var_origin, callVars, raised, warnings >>

\* VyperParser(dir).parse_contracts() on a directory of files.
Init ==
    /\ entry = "parse_contracts"
    /\ pc = "walk"
    /\ files \in Directories
    /\ content = << >>
    /\ arg = << >>
    /\ Idle

Next ==
    \/ SkipFile
    \/ ReadFile
    \/ ReturnContracts
    \/ ExtractFunction
    \/ ExtractDocstring
    \/ ExtractEnums
    \/ ExtractStructs
    \/ ExtractEvents
    \/ ExtractConstants
    \/ ScanLine
    \/ MatchVariables
    \/ BuildContract

Spec == Init /\ [][Next]_vars

\* ------------------------------------ _extract_variables called on a text

\* balance: uint256
LineBalance ==
    <<"balance", ":", " ", "uint256">>

\* @external
LineDecorator ==
    <<"@", "external">>

\* def f(a: uint256):
LineDef ==
    <<"def", " ", "f", "(", "a", ":", " ", "uint256", ")", ":">>

\*     x: uint256        (indented: a line of a function body)
LineLocal ==
    <<" ", " ", "x", ":", " ", "uint256">>

\* # admin:
LineComment ==
    <<"#", " ", "admin", ":">>

\* enum Status:
LineEnum ==
    <<"enum", " ", "Status", ":">>

\* A line of one no-break space, U+00A0.
LineNoBreak ==
    << Chr(160) >>

VariableLines ==
    {LineOwner, LineBalance, LineDecorator, LineDef, LineLocal, LineComment,
     LineEnum, LineBlank, LineNoBreak}

VariableTexts == {Join(ls, "\n") : ls \in SeqsUpTo(VariableLines, MaxLines)}

\* VyperParser._extract_variables(content) on a text.
InitVariables ==
    /\ entry = "_extract_variables"
    /\ pc = "scan"
    /\ files = << >>
    /\ content \in VariableTexts
    /\ arg = << >>
    /\ Idle

NextVariables ==
    \/ ScanLine
    \/ MatchVariables

SpecVariables == InitVariables /\ [][NextVariables]_vars

\* -------------------------------- _parse_params called on a parameter list

\* The longest parameter list of a run of _parse_params, in parameters.
MaxParams == 2

\* DynArray[uint256, 10]
TypeArrayUint ==
    <<"DynArray", "[", "uint256", ",", " ", "10", "]">>

\* DynArray[address, 5]
TypeArrayAddress ==
    <<"DynArray", "[", "address", ",", " ", "5", "]">>

\* DynArray[bool,10]
TypeArrayBool ==
    <<"DynArray", "[", "bool", ",", "10", "]">>

\* DynArray[Foo, 5]
TypeArrayFoo ==
    <<"DynArray", "[", "Foo", ",", " ", "5", "]">>

\* DynArray[uint256, N]
TypeArrayN ==
    <<"DynArray", "[", "uint256", ",", " ", "N", "]">>

\* DynArray[uint256, 10      (the bracket is never closed)
TypeArrayOpen ==
    <<"DynArray", "[", "uint256", ",", " ", "10">>

\* String[10]
TypeString10 ==
    <<"String", "[", "10", "]">>

\* DynArray[uint256,<form feed>10]
TypeArrayFeed ==
    <<"DynArray", "[", "uint256", ",", "\f", "10", "]">>

ParamTypes ==
    {<<"uint256">>, <<"address">>, <<"bool">>, <<"Foo">>, <<"T">>,
     TypeArrayUint, TypeArrayAddress, TypeArrayBool, TypeArrayFoo, TypeArrayN,
     TypeArrayOpen, TypeString10, TypeArrayFeed}

\* The names of the parameters, by position.
ParamNames == << "a", "b", "c" >>

\* "a: <type 1>, b: <type 2>, ..."
RECURSIVE ParamListFrom(_, _)
ParamListFrom(types, k) ==
    IF k > Len(types) THEN << >>
    ELSE (IF k = 1 THEN << >> ELSE << ",", " " >>)
         \o << ParamNames[k], ":", " " >> \o types[k]
         \o ParamListFrom(types, k + 1)

ParamLists == {ParamListFrom(ts, 1) : ts \in SeqsUpTo(ParamTypes, MaxParams)}

\* A call returns r or raises r.err.
Returned(r) ==
    /\ result' = r
    /\ raised' = r.err
    /\ warnings' = warnings \o r.warns
    /\ pc' = "done"

\* VyperParser._parse_params(arg)
CallParseParams ==
    /\ entry = "_parse_params" /\ pc = "call"
    /\ Returned(parse_params(arg))
    /\ UNCHANGED << outVars, entry, files, fidx, content, funcVars, kw, scanVars, variables,
                    var_origin, contracts, arg >>

InitParams ==
    /\ entry = "_parse_params"
    /\ pc = "call"
    /\ files = << >>
    /\ content = << >>
    /\ arg \in ParamLists
    /\ Idle

NextParams == CallParseParams

SpecParams == InitParams /\ [][NextParams]_vars

\* ------------------------------------- Function built with a return type

\* The longest parenthesized return type of a run, in elements.
MaxTupleElems == 3

TupleElemTypes == {<<"uint256">>, <<"bool">>, <<"address">>, TypeArrayUint}

\* "(uint256, bools": a list whose last character is not ")"
TypeListCut == << "(", "uint256", ",", " ", "bools" >>

\* (uint256<form feed>)
TypeListFeed == << "(", "uint256", "\f", ")" >>

\* "(<type 1>, <type 2>, ...)"
ParenList(types) == << "(" >> \o Join(types, ",") \o << ")" >>

\* The elements of a parenthesized list after the first are written after
\* a blank.
RECURSIVE Spaced(_, _)
Spaced(types, k) ==
    IF k > Len(types) THEN << >>
    ELSE << (IF k = 1 THEN << >> ELSE << " " >>) \o types[k] >> \o Spaced(types, k + 1)

ReturnTypes ==
    {StrType(ParenList(Spaced(ts, 1))) : ts \in SeqsUpTo(TupleElemTypes, MaxTupleElems)}
    \cup {StrType(<<"bool">>), StrType(<<"uint256">>), StrType(<<"Foo">>),
          StrType(<<"T">>), StrType(TypeListCut), StrType(TypeListFeed), None}

\* Function(name="f", params=[], return_type=arg, docstring=None)
CallFunction ==
    /\ entry = "Function" /\ pc = "call"
    /\ Returned(Function(<< "f" >>, << >>, arg, None))
    /\ UNCHANGED << outVars, entry, files, fidx, content, funcVars, kw, scanVars, variables,
                    var_origin, contracts, arg >>

InitReturnType ==
    /\ entry = "Function"
    /\ pc = "call"
    /\ files = << >>
    /\ content = << >>
    /\ arg \in ReturnTypes
    /\ Idle

NextReturnType == CallFunction

SpecReturnType == InitReturnType /\ [][NextReturnType]_vars

\* =============================================================== claims

\* ---- what the claims speak of, read off the input of a run

\* The function names of the matches that carry a decorator, in the order
\* of their definitions in the source.
RECURSIVE DecoratedNames(_, _)
DecoratedNames(ms, decorator) ==
    IF ms = << >> THEN << >>
    ELSE (IF Strip(Head(ms).g1) = << decorator >> THEN << Strip(Head(ms).g2) >> ELSE << >>)
         \o DecoratedNames(Tail(ms), decorator)

NamesOf(functions) == [k \in 1..Len(functions) |-> functions[k].name]

\* The text of the file a Contract was built from.
TextOf(path) == files[CHOOSE j \in 1..Len(files) : files[j].name = path].text

ExternalNames(path) == DecoratedNames(FunctionMatches(TextOf(path)), "external")

InternalNames(path) == DecoratedNames(FunctionMatches(TextOf(path)), "internal")

\* A line `name: type` or `name: public(type)`.
IsDeclarationStripped(t) ==
    /\ WordAt(t, 1) /\ TokenAt(t, 2) = ":"
    /\ Let(SkipSpace(t, 3), LAMBDA j :
           \/ j = Len(t) /\ WordAt(t, j)
           \/ /\ j + 3 = Len(t) /\ t[j] = "public" /\ t[j + 1] = "("
              /\ WordAt(t, j + 2) /\ t[j + 3] = ")")

IsDeclaration(line) == IsDeclarationStripped(Strip(line))

DeclaredName(line) == << Strip(line)[1] >>

\* Whether the type expression of a declaration line is wrapped in public(...).
DeclaredPublic(line) ==
    Let(Strip(line), LAMBDA t :
        TokenAt(t, SkipSpace(t, 3)) = "public" /\ TokenAt(t, SkipSpace(t, 3) + 1) = "(")

\* The type name of a declaration line, without the wrapper.
DeclaredInner(line) ==
    Let(Strip(line), LAMBDA t :
        IF DeclaredPublic(line) THEN << t[SkipSpace(t, 3) + 2] >> ELSE << t[SkipSpace(t, 3)] >>)

\* Line j lies inside a function body: a function-start line comes before
\* it with no blank line between the two.
InFunctionBody(lines, j) ==
    \E i \in 1..(j - 1) :
        /\ IsFunctionStart(Strip(lines[i]))
        /\ \A m \in (i + 1)..(j - 1) : Strip(lines[m]) # << >>

\* Line j comes before the first function-start line.
BeforeFirstFunction(lines, j) ==
    \A i \in 1..j : ~IsFunctionStart(Strip(lines[i]))

\* owner: public(address)
\* balance: uint256
OwnerBalance == Join(<< LineOwner, LineBalance >>, "\n")

\* The directory holds one contract file, and that file is empty.
OneEmptyContract(fs) ==
    \E j \in 1..Len(fs) :
        /\ EndsWithVy(fs[j].name) /\ fs[j].text = << >>
        /\ \A i \in 1..Len(fs) : i # j => ~EndsWithVy(fs[i].name)

HasLine(text, line) == \E j \in 1..Len(SplitLines(text)) : SplitLines(text)[j] = line

\* A contract file with the function m, whose first parameter has a
\* DynArray type with no closing bracket, and with no other line that
\* fails.
MalformedOnly(file) ==
    /\ EndsWithVy(file.name)
    /\ HasLine(file.text, LineMalformed)
    /\ ~HasLine(file.text, LineOneChar)

\* The elements of a comma-separated list: a comma inside brackets does
\* not separate.
Depth(s, i) ==
    Cardinality({j \in 1..(i - 1) : s[j] = "["}) - Cardinality({j \in 1..(i - 1) : s[j] = "]"})

TopLevelCommas(s) == {i \in 1..Len(s) : s[i] = "," /\ Depth(s, i) = 0}

NumElements(s) == IF Strip(s) = << >> THEN 0 ELSE Cardinality(TopLevelCommas(s)) + 1

\* The index of the k-th top-level comma; 0 before the first element and
\* Len(s) + 1 after the last.
Cut(s, k) ==
    IF k = 0 THEN 0
    ELSE IF k > Cardinality(TopLevelCommas(s)) THEN Len(s) + 1
    ELSE CHOOSE i \in TopLevelCommas(s) :
            Cardinality({c \in TopLevelCommas(s) : c < i}) = k - 1

Element(s, k) == Strip(SubSeq(s, Cut(s, k - 1) + 1, Cut(s, k) - 1))

ElementName(e) == << e[1] >>

\* The declared type of `name: type`: all that follows the colon.
ElementType(e) == SubSeq(e, SkipSpace(e, 3), Len(e))

IsNamed(e) == WordAt(e, 1) /\ TokenAt(e, 2) = ":"

\* `name[...]` with one pair of brackets.
IsBracketed(t) ==
    /\ Len(t) >= 4 /\ IsWord(t[1]) /\ t[2] = "[" /\ t[Len(t)] = "]"
    /\ \A i \in 3..(Len(t) - 1) : t[i] \notin {"[", "]"}

IsTypeName(t) == Len(t) = 1 /\ IsWord(t[1])

\* `DynArray[T, N]` with T of the vocabulary and N a positive integer literal.
IsValidArray(t) ==
    /\ Len(t) \in {6, 7} /\ t[1] = "DynArray" /\ t[2] = "["
    /\ t[3] \in VALID_VYPER_TYPES /\ t[4] = ","
    /\ (Len(t) = 7 => t[5] = " ")
    /\ IsIntWord(t[Len(t) - 1]) /\ IntOf(t[Len(t) - 1]) > 0
    /\ t[Len(t)] = "]"

\* The value a Parameter holds for a declared type t in full.
CarriesFullType(t, recorded) ==
    IF t[1] = "DynArray"
    THEN /\ recorded.kind = "DynArray"
         /\ recorded.type = << t[3] >>
         /\ IF IsIntWord(t[Len(t) - 1])
            THEN recorded.max_length = [kind |-> "int", value |-> IntOf(t[Len(t) - 1])]
            ELSE recorded.max_length.kind = "Constant"
                 /\ recorded.max_length.name = << t[Len(t) - 1] >>
    ELSE recorded = StrType(t)

AllElements(s, P(_)) == \A k \in 1..NumElements(s) : P(Element(s, k))

\* A return type in parentheses.
Parenthesized(return_type) ==
    /\ return_type # None
    /\ TokenAt(return_type.text, 1) = "("
    /\ return_type.text[Len(return_type.text)] = ")"

Inner(return_type) == SubSeq(return_type.text, 2, Len(return_type.text) - 1)

\* ---- parse_contracts (Spec)

\* C1: the Contract built for a file exposes one function sequence,
\* `functions`, that holds the @external functions of the source in the
\* order of their definitions and after them the @internal functions in
\* the order of theirs.
C1_OneOrderedFunctionSequence ==
    \A i \in 1..Len(contracts) :
        /\ "functions" \in DOMAIN contracts[i]
        /\ NamesOf(contracts[i].functions)
             = ExternalNames(contracts[i].path) \o InternalNames(contracts[i].path)

\* A Contract is built from a file with an @external and an @internal
\* function, and has no attribute `functions`.
C1_NoFunctionsAttribute ==
    \E i \in 1..Len(contracts) :
        /\ "functions" \notin DOMAIN contracts[i]
        /\ ExternalNames(contracts[i].path) # << >>
        /\ InternalNames(contracts[i].path) # << >>

\* The order the two lists of a Contract do keep: each holds the functions
\* of its decorator in the order of their definitions in the source.
TwoListsInSourceOrder ==
    \A i \in 1..Len(contracts) :
        /\ NamesOf(contracts[i].external_functions) = ExternalNames(contracts[i].path)
        /\ NamesOf(contracts[i].internal_functions) = InternalNames(contracts[i].path)

\* C5: parsing a directory whose one contract file is empty never raises,
\* and once it has returned there is exactly one Contract, with docstring
\* None and with no enum, struct, event, constant, variable or function.
C5_EmptyFileYieldsEmptyContract ==
    OneEmptyContract(files) =>
        /\ pc # "raised" /\ raised = NoException
        /\ pc = "done" =>
             /\ Len(contracts) = 1
             /\ contracts[1].docstring = None
             /\ contracts[1].enums = << >>
             /\ contracts[1].structs = << >>
             /\ contracts[1].events = << >>
             /\ contracts[1].constants = << >>
             /\ contracts[1].variables = << >>
             /\ contracts[1].external_functions = << >>
             /\ contracts[1].internal_functions = << >>

\* parse_contracts has returned for a directory with an empty contract
\* file beside a file of another kind.
C5_EmptyFileParsed ==
    /\ pc = "done" /\ OneEmptyContract(files) /\ Len(files) = 2
    /\ Len(contracts) = 1 /\ contracts[1].name = << "token" >>

\* C6: when a parameter has a malformed bracketed type (a DynArray[ that
\* is never closed), no exception leaves parse_contracts, and the Contract
\* returned for the file has the function, with the sibling parameter b.
C6_MalformedFieldContained ==
    \A j \in 1..Len(files) :
        MalformedOnly(files[j]) =>
            /\ pc # "raised"
            /\ pc = "done" =>
                 /\ Len(contracts) = 1
                 /\ \E k \in 1..Len(contracts[1].external_functions) :
                      /\ contracts[1].external_functions[k].name = << "m" >>
                      /\ \E p \in 1..Len(contracts[1].external_functions[k].params) :
                           contracts[1].external_functions[k].params[p].name = << "b" >>

\* The AssertionError of the malformed parameter has left parse_contracts:
\* no Contract is returned for the file.
C6_AssertionErrorRaised ==
    /\ pc = "raised" /\ raised = "AssertionError" /\ contracts = << >>
    /\ \E j \in 1..Len(files) : MalformedOnly(files[j])

\* ---- _extract_variables (SpecVariables)

\* C2: a declaration line inside a function body is never returned as a
\* Variable: no Variable of the result comes from such a line.
C2_BodyDeclarationNeverReturned ==
    pc = "done" =>
        \A j \in 1..Len(SplitLines(content)) :
            (IsDeclaration(SplitLines(content)[j]) /\ InFunctionBody(SplitLines(content), j))
                => \A k \in 1..Len(variables) : var_origin[k] # j

\* _extract_variables has returned Variables for a text that has a
\* declaration line inside a function body that starts with a "def " line.
C2_BodyDeclarationSkipped ==
    /\ pc = "done" /\ variables # << >>
    /\ \E j \in 1..Len(SplitLines(content)) :
         /\ IsDeclaration(SplitLines(content)[j])
         /\ InFunctionBody(SplitLines(content), j)
         /\ TokenAt(Strip(SplitLines(content)[j - 1]), 1) = "def"

\* C3: every declaration line before the first function-start line is
\* returned as a Variable with the declared name, whatever other lines
\* that start no function come before or after it.
C3_ContractDeclarationReturned ==
    pc = "done" =>
        \A j \in 1..Len(SplitLines(content)) :
            (IsDeclaration(SplitLines(content)[j]) /\ BeforeFirstFunction(SplitLines(content), j))
                => \E k \in 1..Len(variables) :
                      variables[k].name = DeclaredName(SplitLines(content)[j])

\* _extract_variables has returned for the text "# admin:" / "owner:
\* public(address)" with no Variable named owner: the one Variable is
\* named admin and has the type owner.
C3_DeclarationSwallowed ==
    /\ pc = "done"
    /\ content = Join(<< LineComment, LineOwner >>, "\n")
    /\ variables = << [name |-> << "admin" >>, type |-> << "owner" >>,
                       visibility |-> "public"] >>

\* C4: a Variable returned for a declaration line is public exactly when
\* the type expression of the line is wrapped in public(...), and private
\* otherwise, and its type is the type name without the wrapper; and the
\* text "owner: public(address)" / "balance: uint256" yields exactly
\* (owner, address, public) and (balance, uint256, private), in that order.
C4_VisibilityFollowsWrapper ==
    pc = "done" =>
        /\ \A k \in 1..Len(variables) :
             Let(SplitLines(content)[var_origin[k]], LAMBDA line :
                 (IsDeclaration(line) /\ variables[k].name = DeclaredName(line)) =>
                     /\ variables[k].visibility
                          = IF DeclaredPublic(line) THEN "public" ELSE "private"
                     /\ variables[k].type = DeclaredInner(line))
        /\ content = OwnerBalance =>
             variables = << [name |-> << "owner" >>, type |-> << "address" >>,
                             visibility |-> "public"],
                            [name |-> << "balance" >>, type |-> << "uint256" >>,
                             visibility |-> "private"] >>

\* _extract_variables has returned for the text "owner: public(address)" /
\* "balance: uint256", and balance, declared with no wrapper, is public.
C4_UnwrappedIsPublic ==
    /\ pc = "done" /\ content = OwnerBalance
    /\ Len(variables) = 2
    /\ variables[2].name = << "balance" >> /\ variables[2].visibility = "public"

\* ---- _parse_params (SpecParams)

IsNameAndTypeName(e) == IsNamed(e) /\ IsTypeName(ElementType(e))

IsUnknownTypeName(e) == ~IsValidType(ElementType(e))

\* C7: for a parameter list whose types are type names, of the vocabulary
\* or not and of any length, _parse_params does not raise and drops no
\* parameter: it returns one Parameter per element with the declared name
\* and the type name recorded, and warns once for each name that is not in
\* the vocabulary.
C7_UnknownTypeNameRecorded ==
    (pc = "done" /\ AllElements(arg, IsNameAndTypeName)) =>
        /\ result.err = NoException
        /\ Len(result.val) = NumElements(arg)
        /\ \A k \in 1..NumElements(arg) :
             result.val[k] = [name |-> ElementName(Element(arg, k)),
                              type |-> StrType(ElementType(Element(arg, k)))]
        /\ Len(result.warns)
             = Cardinality({k \in 1..NumElements(arg) : IsUnknownTypeName(Element(arg, k))})

\* _parse_params has raised IndexError for the one parameter "a: T".
C7_OneCharacterNameRaises ==
    /\ pc = "done" /\ arg = << "a", ":", " ", "T" >>
    /\ result.err = "IndexError"

\* A parameter `name: type` whose type is a type name of two characters
\* or more, or a name with one pair of brackets after it.
IsWellFormedParam(e) ==
    /\ IsNamed(e)
    /\ \/ IsTypeName(ElementType(e)) /\ ~IsOneChar(ElementType(e)[1])
       \/ IsBracketed(ElementType(e))

\* C8: _parse_params returns one Parameter per top-level element of the
\* list, in order, a comma inside brackets separating nothing, and each
\* Parameter has the declared name and the declared type in full.  Stated
\* for the lists with no one-character type name, which C7 is about.
C8_OneParameterPerElement ==
    (pc = "done" /\ AllElements(arg, IsWellFormedParam)) =>
        /\ result.err = NoException
        /\ Len(result.val) = NumElements(arg)
        /\ \A k \in 1..NumElements(arg) :
             /\ result.val[k].name = ElementName(Element(arg, k))
             /\ CarriesFullType(ElementType(Element(arg, k)), result.val[k].type)

\* _parse_params has returned for "a: String[10]" a Parameter whose type
\* is String: the brackets and the length are lost.
C8_BracketedTypeCut ==
    /\ pc = "done" /\ arg = << "a", ":", " " >> \o TypeString10
    /\ result.err = NoException
    /\ result.val = << [name |-> << "a" >>, type |-> StrType(<< "String" >>)] >>

IsValidArrayParam(e) == IsNamed(e) /\ IsValidArray(ElementType(e))

\* C10: a parameter declared `DynArray[T, N]`, with T of the vocabulary and
\* N a positive integer literal, is resolved to a DynArray whose type is T
\* and whose max_length is the integer N, and no warning is emitted.
C10_ValidArrayResolved ==
    (pc = "done" /\ NumElements(arg) >= 1 /\ AllElements(arg, IsValidArrayParam)) =>
        /\ result.err = NoException
        /\ result.warns = << >> /\ warnings = << >>
        /\ Len(result.val) = NumElements(arg)
        /\ \A k \in 1..NumElements(arg) :
             Let(ElementType(Element(arg, k)), LAMBDA t :
                 result.val[k].type
                   = [kind |-> "DynArray", type |-> << t[3] >>,
                      max_length |-> [kind |-> "int", value |-> IntOf(t[Len(t) - 1])]])

\* _parse_params has returned for a list of two such parameters with
\* different element types and lengths.
C10_TwoArraysResolved ==
    /\ pc = "done" /\ NumElements(arg) = 2 /\ AllElements(arg, IsValidArrayParam)
    /\ Len(result.val) = 2
    /\ result.val[1].type.kind = "DynArray" /\ result.val[2].type.kind = "DynArray"
    /\ result.val[1].type.type # result.val[2].type.type
    /\ result.val[1].type.max_length # result.val[2].type.max_length

\* ---- Function (SpecReturnType)

\* C9: the Tuple built for a parenthesized return type has as many
\* elements as the list has top-level elements, a comma inside brackets
\* not counting; "()" gives length 0, and Tuple([]) has length 0.
C9_TupleLengthIsElementCount ==
    /\ TupleLen(Tuple(<< >>).val) = 0
    /\ (pc = "done" /\ Parenthesized(arg)) =>
         /\ result.val.return_type.kind = "Tuple"
         /\ TupleLen(result.val.return_type) = NumElements(Inner(arg))

\* Function has been built for the return type "()", and the Tuple has
\* length 1: its one element is the empty str.
C9_EmptyListHasLengthOne ==
    /\ pc = "done" /\ arg = StrType(<< "(", ")" >>)
    /\ result.val.return_type.kind = "Tuple"
    /\ TupleLen(result.val.return_type) = 1

\* ============================================ array bounds and constants

\* @external def f(b: DynArray[uint256, MAX]):
LineArrayMax ==
    <<"@", "external", " ", "def", " ", "f", "(", "b", ":", " ", "DynArray", "[", "uint256", ",", " ", "MAX", "]", ")", ":">>

\* @internal def g(c: DynArray[address, N]):
LineArrayN ==
    <<"@", "internal", " ", "def", " ", "g", "(", "c", ":", " ", "DynArray", "[", "address", ",", " ", "N", "]", ")", ":">>

ArrayLines == {LineConstant, LineArrayMax, LineArrayN, LineExternalH, LineBlank}

ArrayTexts == {Join(ls, "\n") : ls \in SeqsUpTo(ArrayLines, MaxLines)}

ArrayDirectories ==
    {<< VyFile(t) >> : t \in ArrayTexts}
    \cup {<< OtherFile, VyFile(t) >> : t \in ArrayLines}

\* VyperParser(dir).parse_contracts() on files that declare constants and
\* functions whose parameters are arrays.
InitArrays ==
    /\ entry = "parse_contracts"
    /\ pc = "walk"
    /\ files \in ArrayDirectories
    /\ content = << >>
    /\ arg = << >>
    /\ Idle

SpecArrays == InitArrays /\ [][Next]_vars

\* The parameters of all the functions of a Contract.
RECURSIVE ParamsOfFunctions(_)
ParamsOfFunctions(functions) ==
    IF functions = << >> THEN << >>
    ELSE Head(functions).params \o ParamsOfFunctions(Tail(functions))

ParamsOfContract(contract) ==
    ParamsOfFunctions(contract.external_functions \o contract.internal_functions)

\* The bounds of the array parameters of a Contract that name a constant.
ConstantBounds(contract) ==
    {p.type.max_length : p \in
        {q \in {ParamsOfContract(contract)[j] : j \in 1..Len(ParamsOfContract(contract))} :
            q.type.kind = "DynArray" /\ q.type.max_length.kind = "Constant"}}

\* The constants of a Contract that have the name.
ConstantsNamed(contract, name) ==
    {c \in {contract.constants[j] : j \in 1..Len(contract.constants)} : c.name = name}

BoundResolved(contract, bound) ==
    IF ConstantsNamed(contract, bound.name) # {}
    THEN bound \in ConstantsNamed(contract, bound.name)
    ELSE bound = Constant(bound.name, None, None).val

\* C11: after _parse_contract every array bound that names a constant is
\* that constant of the file, with its type and value, when the file declares
\* a constant of the name, and a reference by name only when it declares none.
C11_BoundResolvedAgainstConstants ==
    pc = "done" =>
        \A k \in 1..Len(contracts) :
            \A bound \in ConstantBounds(contracts[k]) :
                BoundResolved(contracts[k], bound)

\* A file that declares MAX and has a parameter bounded by MAX was parsed.
C11_BoundNamesDeclaredConstant ==
    /\ pc = "done"
    /\ \E k \in 1..Len(contracts) :
           \E bound \in ConstantBounds(contracts[k]) :
               ConstantsNamed(contracts[k], bound.name) # {}

\* The half of C11 that holds: a bound is never more than a name.
BoundIsNameOnly ==
    pc = "done" =>
        \A k \in 1..Len(contracts) :
            \A bound \in ConstantBounds(contracts[k]) :
                bound = Constant(bound.name, None, None).val

\* ======================================= a type name at every place of use

\* Type names outside the vocabulary.
UnknownNames == {"Foo", "int264", "uint7", "string"}

ScalarNames == VALID_VYPER_TYPES \cup UnknownNames

\* a: <name>
ParamOfType(name) == <<"a", ":", " ", name>>

\* struct Pair {a: <name>}
StructOfType(name) == <<"struct", " ", "Pair", " ", "{", "a", ":", " ", name, "}">>

\* x: <name>    and    x: public(<name>)
VariableOfType(name) == <<"x", ":", " ", name>>

PublicOfType(name) == <<"x", ":", " ", "public", "(", name, ")">>

\* MAX: constant(<name>) = 10
ConstantOfType(name) ==
    <<"MAX", ":", " ", "constant", "(", name, ")", " ", "=", " ", "10">>

\* a: <name>    and    a: indexed(<name>)
EventFieldOfType(name) == <<"a", ":", " ", name>>

IndexedOfType(name) == <<"a", ":", " ", "indexed", "(", name, ")">>

\* VyperParser._extract_structs(content)
CallExtractStructs ==
    /\ entry = "_extract_structs" /\ pc = "call"
    /\ Returned(extract_structs(content))
    /\ UNCHANGED << outVars, entry, files, fidx, content, funcVars, kw, scanVars, variables,
                    var_origin, contracts, arg >>

\* VyperParser._extract_constants(content)
CallExtractConstants ==
    /\ entry = "_extract_constants" /\ pc = "call"
    /\ Returned(extract_constants(content))
    /\ UNCHANGED << outVars, entry, files, fidx, content, funcVars, kw, scanVars, variables,
                    var_origin, contracts, arg >>

\* VyperParser._parse_event_params(arg)
CallParseEventParams ==
    /\ entry = "_parse_event_params" /\ pc = "call"
    /\ Returned(parse_event_params(arg))
    /\ UNCHANGED << outVars, entry, files, fidx, content, funcVars, kw, scanVars, variables,
                    var_origin, contracts, arg >>

\* The call of a run, on its text or argument.
ScalarCall(e, at, text, a) ==
    /\ entry = e /\ pc = at /\ content = text /\ arg = a

\* One type name is used as the type of a parameter, of a struct field, of
\* a variable, of a constant, of an event field or as a return type.
InitScalar ==
    /\ \E name \in ScalarNames :
           \/ ScalarCall("_parse_params", "call", << >>, ParamOfType(name))
           \/ ScalarCall("_extract_structs", "call", StructOfType(name), << >>)
           \/ ScalarCall("_extract_variables", "scan", VariableOfType(name), << >>)
           \/ ScalarCall("_extract_variables", "scan", PublicOfType(name), << >>)
           \/ ScalarCall("_extract_constants", "call", ConstantOfType(name), << >>)
           \/ ScalarCall("_parse_event_params", "call", << >>, EventFieldOfType(name))
           \/ ScalarCall("_parse_event_params", "call", << >>, IndexedOfType(name))
           \/ ScalarCall("Function", "call", << >>, StrType(<< name >>))
    /\ files = << >>
    /\ Idle

NextScalar ==
    \/ CallParseParams
    \/ CallExtractStructs
    \/ ScanLine
    \/ MatchVariables
    \/ CallExtractConstants
    \/ CallParseEventParams
    \/ CallFunction

SpecScalar == InitScalar /\ [][NextScalar]_vars

\* The tokens of the input of a run.
InputTokens ==
    IF entry = "Function" THEN arg.text
    ELSE IF entry \in {"_parse_params", "_parse_event_params"} THEN arg
    ELSE content

\* The type name the input of a run uses.
UsedName == CHOOSE name \in ScalarNames : \E i \in 1..Len(InputTokens) : InputTokens[i] = name

\* The type the run recorded, as tokens; << >> when it recorded none.
RecordedType ==
    IF entry = "_parse_params" /\ Len(result.val) = 1 THEN result.val[1].type.text
    ELSE IF entry = "_extract_structs" /\ Len(result.val) = 1
         THEN result.val[1].fields[1].type.text
    ELSE IF entry = "_extract_variables" /\ Len(variables) = 1 THEN variables[1].type
    ELSE IF entry = "_extract_constants" /\ Len(result.val) = 1 THEN result.val[1].type.text
    ELSE IF entry = "_parse_event_params" /\ Len(result.val) = 1 THEN result.val[1].type
    ELSE IF entry = "Function" THEN result.val.return_type.text
    ELSE << >>

\* C12: a name of the vocabulary used as the type of a parameter, a struct
\* field, a variable, a constant, an event field or as a return type is
\* recorded as exactly that name, and nothing is warned of.
C12_VocabularyNameRecordedSilently ==
    (pc = "done" /\ UsedName \in VALID_VYPER_TYPES) =>
        /\ raised = NoException
        /\ RecordedType = << UsedName >>
        /\ warnings = << >>

\* The last name of the vocabulary was recorded as the type of an indexed
\* event field.
C12_StringFieldRecorded ==
    /\ pc = "done" /\ entry = "_parse_event_params"
    /\ arg = IndexedOfType("String")
    /\ RecordedType = << "String" >>
    /\ result.val[1].indexed

\* ===================================== _extract_events called on a text

\* event Transfer:
LineEventHeader ==
    <<"event", " ", "Transfer", ":">>

\*     sender: indexed(address)
LineFieldIndexed ==
    <<" ", " ", "sender", ":", " ", "indexed", "(", "address", ")">>

\*     amount: uint256
LineFieldPlain ==
    <<" ", " ", "amount", ":", " ", "uint256">>

\* event Approval(owner: indexed(address))
LineEventIndexed ==
    <<"event", " ", "Approval", "(", "owner", ":", " ", "indexed", "(", "address", ")", ")">>

\* event Sent(amount: uint256)
LineEventPlain ==
    <<"event", " ", "Sent", "(", "amount", ":", " ", "uint256", ")">>

\* # prevent Sent(a)
LineCommentPrevent ==
    <<"#", " ", "prevent", " ", "Sent", "(", "a", ")">>

EventLines ==
    {LineEventHeader, LineFieldIndexed, LineFieldPlain, LineEventIndexed,
     LineEventPlain, LineCommentPrevent, LineBlank}

EventTexts == {Join(ls, "\n") : ls \in SeqsUpTo(EventLines, MaxLines)}

\* VyperParser._extract_events(content)
CallExtractEvents ==
    /\ entry = "_extract_events" /\ pc = "call"
    /\ Returned(extract_events(content))
    /\ UNCHANGED << outVars, entry, files, fidx, content, funcVars, kw, scanVars, variables,
                    var_origin, contracts, arg >>

InitEvents ==
    /\ entry = "_extract_events"
    /\ pc = "call"
    /\ files = << >>
    /\ content \in EventTexts
    /\ arg = << >>
    /\ Idle

NextEvents == CallExtractEvents

SpecEvents == InitEvents /\ [][NextEvents]_vars

\* ---- the event declarations of a text, as the claim reads them

\* event Name:    or    event Name(...)
IsEventHeader(line) ==
    /\ Len(line) >= 4 /\ line[1] = "event" /\ line[2] = " " /\ IsWord(line[3])
    /\ line[4] \in {":", "("}

\* name: T    or    name: indexed(T)
IsFieldText(t) ==
    /\ Len(t) >= 4 /\ IsWord(t[1]) /\ t[2] = ":" /\ t[3] = " "
    /\ \/ Len(t) = 4 /\ IsWord(t[4])
       \/ Len(t) = 7 /\ t[4] = "indexed" /\ t[5] = "(" /\ IsWord(t[6]) /\ t[7] = ")"

DeclaredField(t) ==
    [name |-> << t[1] >>,
     type |-> IF Len(t) = 4 THEN << t[4] >> ELSE << t[6] >>,
     indexed |-> Len(t) = 7]

\* The fields declared by the lines from line j on, up to the first line
\* that is not a field.
RECURSIVE DeclaredFields(_, _)
DeclaredFields(lines, j) ==
    IF j > Len(lines) \/ ~IsFieldText(Strip(lines[j])) THEN << >>
    ELSE << DeclaredField(Strip(lines[j])) >> \o DeclaredFields(lines, j + 1)

\* The event a header line declares: its fields are on the lines below a
\* header that ends in ":", and between the parentheses of the other form.
DeclaredEvent(lines, j) ==
    [name |-> << lines[j][3] >>,
     params |-> IF lines[j][4] = ":" THEN DeclaredFields(lines, j + 1)
                ELSE << DeclaredField(SubSeq(lines[j], 5, Len(lines[j]) - 1)) >>]

RECURSIVE DeclaredEventsFrom(_, _)
DeclaredEventsFrom(lines, j) ==
    IF j > Len(lines) THEN << >>
    ELSE (IF IsEventHeader(lines[j]) THEN << DeclaredEvent(lines, j) >> ELSE << >>)
         \o DeclaredEventsFrom(lines, j + 1)

DeclaredEvents(text) == DeclaredEventsFrom(SplitLines(text), 1)

\* C13: _extract_events returns one Event for every event declaration of
\* the source, in order, with the declared name and the declared fields in
\* order, each with its name, its type and whether it is written indexed(T).
C13_OneEventPerDeclaration ==
    (pc = "done" /\ entry = "_extract_events") =>
        /\ raised = NoException
        /\ result.val = DeclaredEvents(content)

\* _extract_events ran on a text that declares an event with an indexed
\* field and a field that is not indexed.
C13_EventWithBothFields ==
    /\ pc = "done" /\ entry = "_extract_events"
    /\ \E k \in 1..Len(DeclaredEvents(content)) :
           \E i, j \in 1..Len(DeclaredEvents(content)[k].params) :
               /\ DeclaredEvents(content)[k].params[i].indexed
               /\ ~DeclaredEvents(content)[k].params[j].indexed

\* What _extract_events does: it never returns an Event.
NoEventEverReturned ==
    (pc = "done" /\ entry = "_extract_events") =>
        \/ raised = "NameError"
        \/ raised = NoException /\ result.val = << >>

\* ======================================== parse_contracts on a directory tree

\* The most files of a contracts directory.
MaxFiles == 3

\* owner: public(address)<carriage return><line feed>
LineOwnerCrLf == LineOwner \o << "\r", "\n" >>

\* A name of 252 characters: with .vy after it, it is as long as the name
\* of a file can be, and with .rst after it, longer.
LongName == "xxxxxxxxxxxxxxxxxxxxxxxxxxxxxxxxxxxxxxxxxxxxxxxxxxxxxxxxxxxxxxxxxxxxxxxxxxxxxxxxxxxx"
            \o "xxxxxxxxxxxxxxxxxxxxxxxxxxxxxxxxxxxxxxxxxxxxxxxxxxxxxxxxxxxxxxxxxxxxxxxxxxxxxxxxxxxx"
            \o "xxxxxxxxxxxxxxxxxxxxxxxxxxxxxxxxxxxxxxxxxxxxxxxxxxxxxxxxxxxxxxxxxxxxxxxxxxxxxxxxxxxx"

\* The files the contracts directory itself may hold.
RootFiles ==
    {[name |-> << "token", ".", "vy" >>, text |-> LineExternalF],
     [name |-> << "notes", ".", "vy", ".", "txt" >>, text |-> LineOwner],
     [name |-> << "broken", ".", "vy" >>, text |-> LineMalformed],
     [name |-> << LongName, ".", "vy" >>, text |-> LineOwner],
     OtherFile}

\* The files its directory nested may hold.
NestedFiles ==
    {[name |-> << "nested_token", ".", "vy" >>, text |-> LineOwnerCrLf],
     [name |-> << "token", ".", "vy" >>, text |-> LineDoc]}

\* A sequence in which no element occurs twice.
IsInjective(fs) == \A i, j \in 1..Len(fs) : fs[i] = fs[j] => i = j

\* The orders in which a directory may list up to n of the files.
Listings(S, n) == {fs \in SeqsUpTo(S, n) : IsInjective(fs)}

\* The directory nested: it can be listed or it cannot.
NestedDirectories ==
    {Directory(l, fs, << >>) : l \in BOOLEAN, fs \in Listings(NestedFiles, MaxFiles)}

\* What the contracts directory may list as its directories.
DirectoryListings ==
    {<< >>} \cup {<< [name |-> << "nested" >>, dir |-> d] >> : d \in NestedDirectories}

\* The files of a directory and of the directories below it, whether they
\* can be listed or not, by their path from the directory.
RECURSIVE FilesBelow(_, _)
FilesBelow(dir, root) ==
    [k \in 1..Len(dir.files) |-> [dir.files[k] EXCEPT !.name = root \o @]]
    \o Flatten([k \in 1..Len(dir.dirs) |->
                   FilesBelow(dir.dirs[k].dir, root \o dir.dirs[k].name \o << "/" >>)])

\* The contracts directories of the runs: of up to MaxFiles files.
Trees ==
    {t \in {Directory(l, fs, ds) : l \in BOOLEAN, fs \in Listings(RootFiles, MaxFiles),
                                   ds \in DirectoryListings} :
        Len(FilesBelow(t, << >>)) <= MaxFiles}

\* VyperParser(dir).parse_contracts() on one of the contracts directories:
\* files is what os.walk will yield for it.
InitTree ==
    /\ entry = "parse_contracts"
    /\ pc = "walk"
    /\ contracts_dir_exists = TRUE
    /\ tree \in Trees
    /\ files = Walk(tree, << >>)
    /\ content = << >>
    /\ arg = << >>
    /\ IdleRun

SpecTree == InitTree /\ [][Next]_vars

\* ---- the files of a tree whose name ends in .vy, as the claim reads them

IsVyFile(file) ==
    Len(file.name) >= 2 /\ SubSeq(file.name, Len(file.name) - 1, Len(file.name)) = << ".", "vy" >>

\* The elements of a sequence.
Elements(parts) == {parts[i] : i \in 1..Len(parts)}

\* The paths of the files of the contracts directory, nested ones included,
\* whose name ends in .vy.
MatchingPaths ==
    {file.name : file \in {f \in Elements(FilesBelow(tree, << >>)) : IsVyFile(f)}}

\* C14: for every directory tree, the list parse_contracts returns holds
\* exactly one Contract for every file of the tree whose name ends in .vy,
\* the files of nested directories included, and no Contract for any other
\* file: no matching file is left out of a list that is returned.  (A run
\* that an exception ends returns no list.)
C14_OneContractPerMatchingFile ==
    (entry = "parse_contracts" /\ pc = "done") =>
        /\ \A path \in MatchingPaths :
               Cardinality({k \in 1..Len(contracts) : contracts[k].path = path}) = 1
        /\ \A k \in 1..Len(contracts) : contracts[k].path \in MatchingPaths

\* A list was returned for a contracts directory that holds a contract, a
\* file of another kind and a directory that cannot be listed, which holds
\* a contract too.
C14_UnlistableDirectory ==
    /\ entry = "parse_contracts" /\ pc = "done"
    /\ tree.listable /\ Len(tree.files) = 2 /\ Len(tree.dirs) = 1
    /\ ~tree.dirs[1].dir.listable
    /\ Cardinality(MatchingPaths) = 2
    /\ << "nested", "/", "token", ".", "vy" >> \in MatchingPaths
    /\ Len(contracts) = 1

\* Whether the directory and every directory below it can be listed.
RECURSIVE AllListable(_)
AllListable(dir) ==
    dir.listable /\ \A k \in 1..Len(dir.dirs) : AllListable(dir.dirs[k].dir)

\* What holds of parse_contracts: the list holds one Contract for every
\* matching file that os.walk yields, in the order of the walk, and for a
\* contracts directory whose directories can all be listed these are the
\* matching files of the tree; until the list is returned it holds the
\* Contracts of the matching files walked so far.
OneContractPerWalkedFile ==
    (entry = "parse_contracts") =>
        /\ Len(contracts) <= Len(SelectSeq(files, IsVyFile))
        /\ \A k \in 1..Len(contracts) : contracts[k].path = SelectSeq(files, IsVyFile)[k].name
        /\ pc = "done" => Len(contracts) = Len(SelectSeq(files, IsVyFile))
        /\ AllListable(tree) => files = FilesBelow(tree, << >>)

\* ============================================================ generator.py

\* INDEX_RST (lines 8-15) and CONF_CONTENT (lines 18-35), as tokens.
INDEX_RST ==
    <<"Vyper", " ", "Smart", " ", "Contracts", " ", "Documentation", "\n", "=", "=", "=",
      "=", "=", "=", "=", "=", "=", "=", "=", "=", "=", "=", "=", "=", "=", "=", "=",
      "=", "=", "=", "=", "=", "=", "=", "=", "=", "=", "=", "=", "=", "\n", "\n", ".",
      ".", " ", "toctree", ":", ":", "\n", " ", " ", " ", ":", "maxdepth", ":", " ", "2",
      "\n", " ", " ", " ", ":", "caption", ":", " ", "Contents", ":", "\n", "\n" >>

CONF_CONTENT ==
    <<"#", " ", "Configuration", " ", "file", " ", "for", " ", "Sphinx", " ",
      "documentation", "\n", "\n", "project", " ", "=", " ", "'", "Vyper", " ", "Smart",
      " ", "Contracts", "'", "\n", "copyright", " ", "=", " ", "'", "2023", "'", "\n",
      "author", " ", "=", " ", "'", "Vyper", " ", "Developer", "'", "\n", "\n",
      "extensions", " ", "=", " ", "[", "\n", " ", " ", " ", " ", "'", "sphinx", ".",
      "ext", ".", "autodoc", "'", ",", "\n", " ", " ", " ", " ", "'", "sphinx", ".",
      "ext", ".", "napoleon", "'", ",", "\n", " ", " ", " ", " ", "'", "sphinx", ".",
      "ext", ".", "viewcode", "'", "\n", "]", "\n", "\n", "templates_path", " ", "=",
      " ", "[", "'", "_templates", "'", "]", "\n", "exclude_patterns", " ", "=", " ",
      "[", "'", "_build", "'", ",", " ", "'", "Thumbs", ".", "db", "'", ",", " ", "'",
      ".", "DS_Store", "'", "]", "\n", "\n", "html_theme", " ", "=", " ", "'",
      "sphinx_rtd_theme", "'", "\n", "html_static_path", " ", "=", " ", "[", "'",
      "_static", "'", "]", "\n" >>

\* t * n
Repeat(t, n) == [i \in 1..n |-> t]

\* sep.join(parts) for a separator of several tokens.
RECURSIVE JoinWith(_, _)
JoinWith(parts, sep) ==
    IF parts = << >> THEN << >>
    ELSE IF Len(parts) = 1 THEN parts[1]
    ELSE parts[1] \o sep \o JoinWith(Tail(parts), sep)

\* The places of the characters of a text: the token and the place in it.
CharsOf(text) == UNION {{<< i, j >> : j \in 1..Len(text[i])} : i \in 1..Len(text)}

\* len(text): the characters of all the tokens.
StrLen(text) == Cardinality(CharsOf(text))

\* str(n) for an int: its decimal digits as one word, after "-" when n < 0.
DigitText(d) ==
    CASE d = 0 -> "0" [] d = 1 -> "1" [] d = 2 -> "2" [] d = 3 -> "3" [] d = 4 -> "4"
      [] d = 5 -> "5" [] d = 6 -> "6" [] d = 7 -> "7" [] d = 8 -> "8" [] OTHER -> "9"

RECURSIVE NatText(_)
NatText(n) == IF n < 10 THEN DigitText(n) ELSE NatText(n \div 10) \o DigitText(n % 10)

IntText(n) == IF n < 0 THEN << "-", NatText(0 - n) >> ELSE << NatText(n) >>

\* repr of a str: in double quotes when it holds a single quote and no
\* double quote, in single quotes otherwise; the backslash, the quote
\* used, the line feed, the tab and the carriage return are written as
\* escapes, and every other character that cannot be seen in print as \x
\* and the two hexadecimal digits of its code point.  The letters of an
\* escape are one word with the word after it.
HasToken(text, set) == \E i \in 1..Len(text) : text[i] \in set

HexDigit(d) ==
    CASE d = 10 -> "a" [] d = 11 -> "b" [] d = 12 -> "c" [] d = 13 -> "d" [] d = 14 -> "e"
      [] d = 15 -> "f" [] OTHER -> DigitText(d)

\* The code points of the characters str.isprintable() is false of.
NotPrintable == (1..31) \cup (127..160) \cup {173}

IsNotPrintable(t) == \E n \in NotPrintable : Chr(n) = t

CodePoint(t) == CHOOSE n \in NotPrintable : Chr(n) = t

HexEscape(n) == << "\\", "x" \o HexDigit(n \div 16) \o HexDigit(n % 16) >>

EscapeOf(t, quote) ==
    IF t = "\n" THEN << "\\", "n" >>
    ELSE IF t = "\t" THEN << "\\", "t" >>
    ELSE IF t = "\r" THEN << "\\", "r" >>
    ELSE IF t = "\\" THEN << "\\", "\\" >>
    ELSE IF t = quote THEN << "\\", quote >>
    ELSE IF IsNotPrintable(t) THEN HexEscape(CodePoint(t))
    ELSE << t >>

RECURSIVE Escaped(_, _)
Escaped(text, quote) ==
    IF text = << >> THEN << >>
    ELSE EscapeOf(Head(text), quote) \o Escaped(Tail(text), quote)

Quoted(text) ==
    IF HasToken(text, {"'"}) /\ ~HasToken(text, {"\"", QQQ})
    THEN << "\"" >> \o MergeWords(Escaped(text, "\"")) \o << "\"" >>
    ELSE << "'" >> \o MergeWords(Escaped(text, "'")) \o << "'" >>

\* repr of a value that is a str or None.
ReprOptional(g) == IF g = None THEN << "None" >> ELSE Quoted(g.text)

\* str of a value that is a str or None.
StrOptional(g) == IF g = None THEN << "None" >> ELSE g.text

\* The repr the dataclass Constant generates (lines 40-45).
ReprConstant(c) ==
    << "Constant", "(", "name", "=" >> \o Quoted(c.name)
    \o << ",", " ", "type", "=" >> \o ReprOptional(c.type)
    \o << ",", " ", "value", "=" >> \o ReprOptional(c.value) \o << ")" >>

\* repr of the max_length of a DynArray: an int or a Constant.
ReprBound(b) == IF b.kind = "int" THEN IntText(b.value) ELSE ReprConstant(b)

\* f"{type}" for a Type: a str is itself; Tuple and DynArray are dataclasses
\* without __str__, so str() is the repr the dataclass generates (lines
\* 69-73, 88-93).
FormatType(t) ==
    IF t.kind = "str" THEN t.text
    ELSE IF t.kind = "DynArray"
    THEN << "DynArray", "(", "type", "=" >> \o Quoted(t.type)
         \o << ",", " ", "max_length", "=" >> \o ReprBound(t.max_length) \o << ")" >>
    ELSE << "Tuple", "(", "types", "=", "[" >>
         \o JoinWith([k \in 1..Len(t.types) |-> Quoted(t.types[k])], << ",", " " >>)
         \o << "]", ")" >>

\* bool(value) for a return type: None and "" are false, a Tuple is as true
\* as its __len__ is positive (line 84), a DynArray is true.
TruthyType(t) ==
    /\ t # None
    /\ t.kind = "str" => t.text # << >>
    /\ t.kind = "Tuple" => Len(t.types) > 0

\* ".. py:<directive>:: "
Directive(name) == << ".", ".", " ", "py", ":", name, ":", ":", " " >>

Indent3 == << " ", " ", " " >>

BlankLine == << "\n", "\n" >>

\* _insert_content_section(name), lines 142-144
insert_content_section(name) ==
    name \o << "\n" >> \o Repeat("-", StrLen(name)) \o BlankLine

\* f"{p.name}: {p.type}"
ParamText(p) == p.name \o << ":", " " >> \o FormatType(p.type)

\* _generate_function_docs(func), lines 123-131
generate_function_docs(func) ==
    Directive("function") \o func.name \o << "(" >>
    \o JoinWith([k \in 1..Len(func.params) |-> ParamText(func.params[k])], << ",", " " >>)
    \o << ")" >>
    \o (IF TruthyType(func.return_type)
        THEN << " ", "-", ">", " " >> \o FormatType(func.return_type) ELSE << >>)
    \o BlankLine
    \o (IF Truthy(func.docstring) THEN Indent3 \o func.docstring.text \o BlankLine
        ELSE << >>)

\* Lines 137-138 for one field of a struct.
StructFieldDocs(name, field) ==
    Indent3 \o Directive("attribute") \o name \o << "." >> \o field.name \o BlankLine
    \o Indent3 \o Indent3 \o FormatType(field.type) \o BlankLine

\* _generate_struct_docs(struct), lines 133-139
generate_struct_docs(struct) ==
    Directive("class") \o struct.name \o BlankLine
    \o Flatten([k \in 1..Len(struct.fields) |-> StructFieldDocs(struct.name, struct.fields[k])])

\* Lines 77-79 for one enum.
EnumDocs(enum) ==
    Directive("class") \o enum.name \o BlankLine
    \o Flatten([k \in 1..Len(enum.values) |->
                   Indent3 \o Directive("attribute") \o enum.values[k] \o BlankLine])

\* Lines 97-98 for one constant.
ConstantDocs(constant) ==
    Directive("data") \o constant.name \o BlankLine
    \o Indent3 \o StrOptional(constant.type) \o << ":", " " >>
    \o StrOptional(constant.value) \o BlankLine

\* Lines 103-104 for one variable: no line end follows the type.
VariableDocs(variable) ==
    Directive("attribute") \o variable.name \o BlankLine
    \o Indent3
    \o (IF variable.visibility = "public"
        THEN << "public", "(" >> \o variable.type \o << ")" >>
        ELSE variable.type)

\* A section of the document: nothing for an empty list, else the heading
\* and the entries.
Section(heading, entries) ==
    IF entries = << >> THEN << >>
    ELSE insert_content_section(heading) \o Flatten(entries)

\* Lines 69-85: the document up to the events.
ContractDocHead(contract) ==
    contract.name \o << "\n" >> \o Repeat("=", StrLen(contract.name)) \o BlankLine
    \o (IF Truthy(contract.docstring) THEN contract.docstring.text \o BlankLine ELSE << >>)
    \o Section(<< "Enums" >>,
               [k \in 1..Len(contract.enums) |-> EnumDocs(contract.enums[k])])
    \o Section(<< "Structs" >>,
               [k \in 1..Len(contract.structs) |-> generate_struct_docs(contract.structs[k])])

\* content += more, where content may end in a word and more begin with
\* one: the two are then one word.
Concat(text, more) ==
    IF text # << >> /\ more # << >> /\ IsWord(text[Len(text)]) /\ IsWord(more[1])
    THEN SubSeq(text, 1, Len(text) - 1) \o << text[Len(text)] \o more[1] >> \o Tail(more)
    ELSE text \o more

\* Lines 106-114: the two sections of functions.
FunctionSections(contract) ==
    Section(<< "External", " ", "Functions" >>,
            [k \in 1..Len(contract.external_functions) |->
                generate_function_docs(contract.external_functions[k])])
    \o Section(<< "Internal", " ", "Functions" >>,
               [k \in 1..Len(contract.internal_functions) |->
                   generate_function_docs(contract.internal_functions[k])])

\* Lines 94-114: the document after the events.  No line end follows the
\* type of the last variable: the heading of the next section is written
\* right after it.
ContractDocTail(contract) ==
    Section(<< "Constants" >>,
            [k \in 1..Len(contract.constants) |-> ConstantDocs(contract.constants[k])])
    \o Concat(Section(<< "Variables" >>,
                      [k \in 1..Len(contract.variables) |->
                          VariableDocs(contract.variables[k])]),
              FunctionSections(contract))

\* Lines 69-114 for one contract: its document, or the AttributeError of
\* line 90, which reads event.fields of an Event, whose field is params.
ContractDoc(contract) ==
    IF contract.events # << >> THEN Raise("AttributeError")
    ELSE [err |-> NoException,
          val |-> ContractDocHead(contract) \o ContractDocTail(contract),
          warns |-> << >>]

\* ----------------------------------------------------- open() and makedirs

\* The most bytes a file name may have, and the most a path may have with
\* the byte that ends it (NAME_MAX and PATH_MAX of Linux).
NAME_MAX == 255

PATH_MAX == 4096

\* The characters of U+00A1 to U+00FF that are printed.
LatinPrintable ==
    {"¡", "¢", "£", "¤", "¥", "¦", "§", "¨", "©", "ª", "«", "¬", "®", "¯", "°", "±", "²",
     "³", "´", "µ", "¶", "·", "¸", "¹", "º", "»", "¼", "½", "¾", "¿", "À", "Á", "Â", "Ã",
     "Ä", "Å", "Æ", "Ç", "È", "É", "Ê", "Ë", "Ì", "Í", "Î", "Ï", "Ð", "Ñ", "Ò", "Ó", "Ô",
     "Õ", "Ö", "×", "Ø", "Ù", "Ú", "Û", "Ü", "Ý", "Þ", "ß", "à", "á", "â", "ã", "ä", "å",
     "æ", "ç", "è", "é", "ê", "ë", "ì", "í", "î", "ï", "ð", "ñ", "ò", "ó", "ô", "õ", "ö",
     "÷", "ø", "ù", "ú", "û", "ü", "ý", "þ", "ÿ"}

\* The characters that are two bytes in UTF-8: those from U+0080.
TwoByteChars == {Chr(n) : n \in 128..160} \cup {Chr(173)} \cup LatinPrintable

\* len(text.encode("utf-8"))
Utf8Len(text) ==
    StrLen(text)
    + Cardinality({p \in CharsOf(text) : SubSeq(text[p[1]], p[2], p[2]) \in TwoByteChars})

\* os.path.join(a, b): b alone when it begins with "/".
PathJoin(a, b) ==
    IF b # << >> /\ b[1] = "/" THEN b
    ELSE IF a = << >> \/ a[Len(a)] = "/" THEN a \o b
    ELSE a \o << "/" >> \o b

\* The output directory given to SphinxGenerator, and self.docs_dir
\* (line 43).
OutputDir == << "/", "work", "/", "out" >>

DocsDir == PathJoin(OutputDir, << "docs" >>)

\* A directory is named by the names on the way to it from the root.  The
\* directory of a path without "." and ".." in it:
DirOf(path) == SelectSeq(Split(path, "/"), LAMBDA c : c # << >>)

\* Whether there is a file of the name in the directory.
IsFile(d, dir, name) ==
    \E i \in 1..Len(d.files) : d.files[i].dir = dir /\ d.files[i].name = name

\* The directory that the names lead to from the directory cur, as the
\* system looks them up one after the other, or the error of open().
RECURSIVE LookUp(_, _, _)
LookUp(d, cur, names) ==
    IF names = << >> THEN [err |-> NoException, val |-> cur, warns |-> << >>]
    ELSE IF Head(names) \in {<< >>, << "." >>} THEN LookUp(d, cur, Tail(names))
    ELSE IF Head(names) = << ".", "." >>
    THEN LookUp(d, IF cur = << >> THEN cur ELSE SubSeq(cur, 1, Len(cur) - 1), Tail(names))
    ELSE IF Utf8Len(Head(names)) > NAME_MAX THEN Raise("OSError")
    ELSE IF Append(cur, Head(names)) \in d.dirs
    THEN LookUp(d, Append(cur, Head(names)), Tail(names))
    ELSE IF IsFile(d, cur, Head(names)) THEN Raise("NotADirectoryError")
    ELSE Raise("FileNotFoundError")

\* The file of the name in the directory is written: a file that is there
\* is replaced, any other is a new file.
Written(d, dir, name, text) ==
    IF IsFile(d, dir, name)
    THEN [d EXCEPT !.files =
             [i \in 1..Len(d.files) |->
                 IF d.files[i].dir = dir /\ d.files[i].name = name
                 THEN [dir |-> dir, name |-> name, content |-> text]
                 ELSE d.files[i]]]
    ELSE [d EXCEPT !.files = Append(d.files, [dir |-> dir, name |-> name, content |-> text])]

\* open(path, "w") with the directory of the path looked up to r, and
\* f.write(text).
OpenIn(d, r, name, text) ==
    IF r.err # NoException THEN r
    ELSE IF name \in {<< >>, << "." >>, << ".", "." >>} THEN Raise("IsADirectoryError")
    ELSE IF Utf8Len(name) > NAME_MAX THEN Raise("OSError")
    ELSE IF Append(r.val, name) \in d.dirs THEN Raise("IsADirectoryError")
    ELSE [err |-> NoException, val |-> Written(d, r.val, name, text), warns |-> << >>]

\* with open(path, "w", encoding="utf-8") as f: f.write(text), for a path
\* from the root: the disk with the file written, or the error of open().
OpenWrite(d, path, text) ==
    IF Utf8Len(path) >= PATH_MAX THEN Raise("OSError")
    ELSE Let(Split(path, "/"), LAMBDA names :
             OpenIn(d, LookUp(d, << >>, SubSeq(names, 1, Len(names) - 1)),
                    names[Len(names)], text))

\* open(os.path.join(self.docs_dir, name), "w", encoding="utf-8") and
\* f.write(text), lines 54-55, 63-64 and 116-121.
WriteFile(d, name, text) == OpenWrite(d, PathJoin(DocsDir, name), text)

\* Whether a directory that is not there can be made at the path: no file
\* is in the way.
NoFileInTheWay(d, dir) ==
    \A k \in 1..Len(dir) : ~IsFile(d, SubSeq(dir, 1, k - 1), dir[k])

\* os.makedirs(path, exist_ok=True): the directory and those on the way to
\* it that are not there are made; a file in the way is an error.
MakeDirs(d, dir) ==
    IF dir # << >> /\ IsFile(d, SubSeq(dir, 1, Len(dir) - 1), dir[Len(dir)])
    THEN Raise("FileExistsError")
    ELSE IF ~NoFileInTheWay(d, dir) THEN Raise("NotADirectoryError")
    ELSE [err |-> NoException,
          val |-> [d EXCEPT !.dirs = @ \cup {SubSeq(dir, 1, k) : k \in 0..Len(dir)}],
          warns |-> << >>]

\* Lines 59-61: the index text.
IndexContent(cs) ==
    INDEX_RST \o Flatten([k \in 1..Len(cs) |-> Indent3 \o cs[k].name \o << "\n" >>])

\* ------------------------------------------- SphinxGenerator, lines 38-121

parseVars == << files, fidx, content, funcVars, kw, scanVars, variables, var_origin >>

\* A call that makes or writes on the disk has returned or raised r: the
\* disk is as the call left it and the run goes on at the place, or the
\* exception ends the run.
DiskCall(r, place) ==
    IF r.err # NoException
    THEN /\ raised' = r.err /\ pc' = "raised"
         /\ UNCHANGED disk
    ELSE /\ disk' = r.val /\ pc' = place
         /\ UNCHANGED raised

\* SphinxGenerator(output_dir): os.makedirs(self.docs_dir, exist_ok=True)
MakeGenerator ==
    /\ pc = "generator"
    /\ DiskCall(MakeDirs(disk, DirOf(DocsDir)), "conf")
    /\ UNCHANGED << entry, parseVars, contracts, callVars, warnings,
                    contracts_dir_exists, tree, ci, resolved >>

\* self._generate_conf_py()
GenerateConf ==
    /\ pc = "conf"
    /\ DiskCall(WriteFile(disk, << "conf", ".", "py" >>, CONF_CONTENT), "index")
    /\ UNCHANGED << entry, parseVars, contracts, callVars, warnings,
                    contracts_dir_exists, tree, ci, resolved >>

\* self._generate_index_rst(contracts); then _generate_contract_docs is
\* entered.
GenerateIndex ==
    /\ pc = "index"
    /\ DiskCall(WriteFile(disk, << "index", ".", "rst" >>, IndexContent(contracts)), "docs")
    /\ ci' = 1
    /\ UNCHANGED << entry, parseVars, contracts, callVars, warnings,
                    contracts_dir_exists, tree, resolved >>

\* Lines 116-121 have returned or raised r: the loop goes on with the next
\* contract, or the exception ends the run.
ContractFile(r) ==
    /\ DiskCall(r, "docs")
    /\ ci' = IF r.err = NoException THEN ci + 1 ELSE ci

\* Lines 69-121 for one contract whose document was built or raised: the
\* document is written to the file named after the contract, if open()
\* takes the name.
WriteContractDoc(contract, r) ==
    IF r.err # NoException
    THEN /\ raised' = r.err /\ pc' = "raised"
         /\ UNCHANGED << disk, ci >>
    ELSE ContractFile(WriteFile(disk, contract.name \o << ".", "rst" >>, r.val))

\* One turn of the loop of _generate_contract_docs (lines 68-121).
GenerateContractDoc ==
    /\ pc = "docs" /\ ci <= Len(contracts)
    /\ WriteContractDoc(contracts[ci], ContractDoc(contracts[ci]))
    /\ UNCHANGED << entry, parseVars, contracts, callVars, warnings,
                    contracts_dir_exists, tree, resolved >>

\* The loop is over: generate returns.
ReturnGenerate ==
    /\ pc = "docs" /\ ci > Len(contracts)
    /\ pc' = IF entry = "_main" THEN "sphinx" ELSE "done"
    /\ UNCHANGED << entry, parseVars, contracts, callVars, raised, warnings, outVars >>

\* ------------------------------------------------- cli._main, lines 43-59

\* not contracts_dir.exists(), parser.py line 200
InvalidContractsDirNever(exists) == FALSE

InvalidContractsDir(exists) == ~exists

\* The name of the contracts directory.
ContractsDirName == << "contracts" >>

\* f"Invalid contracts dir: {contracts_dir}"
InvalidDirMessage ==
    << "Invalid", " ", "contracts", " ", "dir", ":", " " >> \o ContractsDirName

\* VyperParser(Path(contracts_dir)), parser.py lines 199-203
Construct ==
    /\ entry = "_main" /\ pc = "construct"
    /\ IF InvalidContractsDir(contracts_dir_exists)
       THEN /\ raised' = "FileNotFoundError"
            /\ result' = [err |-> "FileNotFoundError",
                          val |-> StrType(InvalidDirMessage),
                          warns |-> << >>]
            /\ pc' = "raised"
       ELSE /\ pc' = "walk"
            /\ UNCHANGED << raised, result >>
    /\ UNCHANGED << entry, parseVars, contracts, arg, warnings, outVars >>

\* What subprocess.run(["sphinx-build", ...], check=True) raises: nothing
\* when the program exits with 0, CalledProcessError when it exits with
\* another status or is ended by a signal, and the error of starting it:
\* FileNotFoundError when no sphinx-build is found on the PATH,
\* NotADirectoryError when the last place of the PATH is below a file,
\* PermissionError when the one found may not be executed or is a directory,
\* OSError when it is no program (an empty file, a text without #!, a link
\* to itself), BlockingIOError when the user may have no further process.
BuildOutcomes ==
    {NoException, "CalledProcessError", "FileNotFoundError", "NotADirectoryError",
     "PermissionError", "OSError", "BlockingIOError"}

\* The outcomes with a program that has run.
ProgramRan == {NoException, "CalledProcessError"}

\* build_dir of _main, line 54: docs_dir / "_build" / "html".
BuildDir == DirOf(DocsDir) \o << << "_build" >>, << "html" >> >>

\* The pages a build may write as index.html: what they hold is the
\* program's, not _main's.
IndexPages ==
    {<< "<", "html", ">", "<", "/", "html", ">", "\n" >>,
     << "<", "title", ">", "Vyper", " ", "Smart", " ", "Contracts", "<", "/", "title", ">", "\n" >>}

\* The build directory made by the program, with those on the way to it.
BuildMade(d) == MakeDirs(d, BuildDir)

\* The disks the program run as sphinx-build may leave: it has written
\* nothing, or made the build directory, or made it and written index.html
\* there, as sphinx-build does before it exits with 0.  _main does not look
\* at what was written.
BuildWrites(d) ==
    {d} \cup
    (IF BuildMade(d).err # NoException THEN {}
     ELSE {BuildMade(d).val}
          \cup {Written(BuildMade(d).val, BuildDir, << "index", ".", "html" >>, page) :
                   page \in IndexPages})

\* subprocess.run(["sphinx-build", ...], check=True), lines 55-57: the
\* program has run and left its files, and _main prints where they are when
\* it exited with 0; or the exception ends the run, with nothing written
\* when the program could not be started.
SphinxBuild ==
    /\ pc = "sphinx"
    /\ \E outcome \in BuildOutcomes :
           /\ IF outcome = NoException THEN pc' = "done" /\ UNCHANGED raised
              ELSE pc' = "raised" /\ raised' = outcome
           /\ disk' \in (IF outcome \in ProgramRan THEN BuildWrites(disk) ELSE {disk})
    /\ UNCHANGED << entry, parseVars, contracts, callVars, warnings,
                    contracts_dir_exists, tree, ci, resolved >>

\* _main(contracts_dir, output_dir) on a contracts directory that exists,
\* with any of the trees, or that does not exist: os.walk yields nothing for
\* a directory that is not there.
InitCli ==
    /\ entry = "_main"
    /\ pc = "construct"
    /\ contracts_dir_exists \in BOOLEAN
    /\ tree \in (IF contracts_dir_exists THEN Trees ELSE {Directory(FALSE, << >>, << >>)})
    /\ files = Walk(tree, << >>)
    /\ content = << >>
    /\ arg = << >>
    /\ fidx = 1
    /\ fi = 1 /\ external_functions = << >> /\ internal_functions = << >>
    /\ kw = NoKw
    /\ li = 1 /\ inside_function = FALSE /\ contract_level_lines = << >> /\ origin = << >>
    /\ variables = << >> /\ var_origin = << >>
    /\ contracts = << >>
    /\ result = NoResult
    /\ raised = NoException /\ warnings = << >>
    /\ disk = InitialDisk /\ ci = 1
    /\ resolved = << >>

NextCli ==
    \/ Construct
    \/ Next
    \/ MakeGenerator
    \/ GenerateConf
    \/ GenerateIndex
    \/ GenerateContractDoc
    \/ ReturnGenerate
    \/ SphinxBuild

SpecCli == InitCli /\ [][NextCli]_vars

\* Whether the text contains the tokens, one after the other.
ContainsTokens(text, part) ==
    \E i \in 1..(Len(text) - Len(part) + 1) : SubSeq(text, i, i + Len(part) - 1) = part

\* C15: when the contracts directory does not exist, constructing
\* VyperParser raises FileNotFoundError with a message that contains
\* "Invalid contracts dir", and then no file has been read, no Contract
\* extracted and nothing made or written under the output directory.
C15_MissingDirectoryFailsFirst ==
    (entry = "_main" /\ ~contracts_dir_exists /\ pc # "construct") =>
        /\ pc = "raised" /\ raised = "FileNotFoundError"
        /\ result.err = "FileNotFoundError"
        /\ ContainsTokens(result.val.text, << "Invalid", " ", "contracts", " ", "dir" >>)
        /\ fidx = 1 /\ content = << >>
        /\ contracts = << >>
        /\ disk = InitialDisk

\* The constructor ran on a directory that is not there.
C15_ConstructorRaised ==
    /\ entry = "_main" /\ ~contracts_dir_exists /\ pc = "raised"
    /\ raised = "FileNotFoundError"

\* ================================ functions with docstrings, and the sample

\* The ERC20 sample file of src/tests/conftest.py, lines 11-42.
sample_contract ==
    <<QQQ, "\n", "ERC20", " ", "Token", " ", "Implementation", "\n", "This", " ", "is",
      " ", "a", " ", "sample", " ", "ERC20", " ", "token", " ", "contract", ".", "\n", QQQ,
      "\n", "\n", "@", "external", "\n", "def", " ", "transfer", "(", "to", ":", " ",
      "address", ",", " ", "amount", ":", " ", "uint256", ")", " ", "-", ">", " ", "bool",
      ":", "\n", " ", " ", " ", " ", QQQ, "\n", " ", " ", " ", " ", "Transfer", " ",
      "tokens", " ", "to", " ", "a", " ", "specified", " ", "address", ".", "\n", " ", " ",
      " ", " ", "\n", " ", " ", " ", " ", "Args", ":", "\n", " ", " ", " ", " ", " ", " ",
      " ", " ", "to", ":", " ", "The", " ", "recipient", " ", "address", "\n", " ", " ",
      " ", " ", " ", " ", " ", " ", "amount", ":", " ", "The", " ", "amount", " ", "to",
      " ", "transfer", "\n", " ", " ", " ", " ", " ", " ", " ", " ", "\n", " ", " ", " ",
      " ", "Returns", ":", "\n", " ", " ", " ", " ", " ", " ", " ", " ", "bool", ":", " ",
      "Success", " ", "status", "\n", " ", " ", " ", " ", QQQ, "\n", " ", " ", " ", " ",
      "return", " ", "True", "\n", "\n", "@", "external", "\n", "def", " ", "balance_of",
      "(", "account", ":", " ", "address", ")", " ", "-", ">", " ", "uint256", ":", "\n",
      " ", " ", " ", " ", QQQ, "\n", " ", " ", " ", " ", "Get", " ", "the", " ", "token",
      " ", "balance", " ", "of", " ", "an", " ", "account", ".", "\n", " ", " ", " ", " ",
      "\n", " ", " ", " ", " ", "Args", ":", "\n", " ", " ", " ", " ", " ", " ", " ", " ",
      "account", ":", " ", "The", " ", "address", " ", "to", " ", "query", "\n", " ", " ",
      " ", " ", " ", " ", " ", " ", "\n", " ", " ", " ", " ", "Returns", ":", "\n", " ",
      " ", " ", " ", " ", " ", " ", " ", "uint256", ":", " ", "Token", " ", "balance",
      "\n", " ", " ", " ", " ", QQQ, "\n", " ", " ", " ", " ", "return", " ", "0", "\n" >>

\* @external def transfer(to: address, amount: uint256) -> bool:
LineTransfer ==
    <<"@", "external", " ", "def", " ", "transfer", "(", "to", ":", " ", "address", ",", " ",
      "amount", ":", " ", "uint256", ")", " ", "-", ">", " ", "bool", ":">>

\* @internal def balance_of(account: address) -> uint256:
LineBalanceOf ==
    <<"@", "internal", " ", "def", " ", "balance_of", "(", "account", ":", " ", "address", ")",
      " ", "-", ">", " ", "uint256", ":">>

\*     """Transfer tokens"""
LineDocTransfer ==
    <<" ", " ", " ", " ", QQQ, "Transfer", " ", "tokens", QQQ>>

\*     """
\*     Get the balance
\*     """
LinesDocBalance ==
    <<" ", " ", " ", " ", QQQ, "\n", " ", " ", " ", " ", "Get", " ", "the", " ", "balance",
      "\n", " ", " ", " ", " ", QQQ>>

\*     return True
LineReturn ==
    <<" ", " ", " ", " ", "return", " ", "True">>

DocumentedLines ==
    {LineTransfer, LineBalanceOf, LineDocTransfer, LinesDocBalance, LineReturn, LineBlank}

DocumentedTexts == {Join(ls, "\n") : ls \in SeqsUpTo(DocumentedLines, MaxLines)}

SampleDirectories ==
    {<< VyFile(t) >> : t \in DocumentedTexts \cup {sample_contract}}
    \cup {<< OtherFile, VyFile(sample_contract) >>}

InitSample ==
    /\ entry = "parse_contracts"
    /\ pc = "walk"
    /\ files \in SampleDirectories
    /\ content = << >>
    /\ arg = << >>
    /\ Idle

SpecSample == InitSample /\ [][Next]_vars

\* ---- the function definitions of a text, as the claim reads them

\* Token i starts `@external def name(` or `@internal def name(`.
IsHeaderAt(text, i) ==
    /\ AtLineStart(text, i)
    /\ TokenAt(text, i) = "@" /\ TokenAt(text, i + 1) \in {"external", "internal"}
    /\ IsSpace(TokenAt(text, i + 2)) /\ TokenAt(text, i + 3) = "def"
    /\ TokenAt(text, i + 4) = " " /\ WordAt(text, i + 5) /\ TokenAt(text, i + 6) = "("

\* The colon that ends the header: the last token of the line that holds
\* the closing parenthesis.
HeaderColon(text, i) == LineEnd(text, IndexFrom(text, ")", i + 7))

\* The header has `-> ret:` and a triple-quoted block follows it.
IsDocumentedAt(text, i) ==
    /\ IsHeaderAt(text, i)
    /\ TokenAt(text, HeaderColon(text, i)) = ":"
    /\ WordAt(text, HeaderColon(text, i) - 1)
    /\ TokenAt(text, HeaderColon(text, i) - 3) = ">"
    /\ TokenAt(text, SkipSpace(text, HeaderColon(text, i) + 1)) = QQQ
    /\ IndexFrom(text, QQQ, SkipSpace(text, HeaderColon(text, i) + 1) + 1) # 0

\* The text between the parentheses of the header.
DeclaredParamsText(text, i) == SubSeq(text, i + 7, IndexFrom(text, ")", i + 7) - 1)

DeclaredParams(params) ==
    [k \in 1..NumElements(params) |->
        [name |-> ElementName(Element(params, k)),
         type |-> StrType(ElementType(Element(params, k)))]]

\* The text of the triple-quoted block that starts at token q.
BlockText(text, q) == Strip(SubSeq(text, q + 1, IndexFrom(text, QQQ, q + 1) - 1))

\* The Function the claim describes for the definition at token i.
DeclaredFunction(text, i) ==
    [name |-> << text[i + 5] >>,
     params |-> DeclaredParams(DeclaredParamsText(text, i)),
     return_type |-> StrType(<< text[HeaderColon(text, i) - 1] >>),
     docstring |-> StrType(BlockText(text, SkipSpace(text, HeaderColon(text, i) + 1)))]

\* The functions a Contract holds for the decorator.
FunctionsFor(contract, decorator) ==
    IF decorator = "external" THEN contract.external_functions
    ELSE contract.internal_functions

IsElementOf(x, seq) == \E k \in 1..Len(seq) : seq[k] = x

DocumentedFunctionsExtracted(contract, text) ==
    \A i \in 1..Len(text) :
        IsDocumentedAt(text, i) =>
            IsElementOf(DeclaredFunction(text, i), FunctionsFor(contract, text[i + 1]))

\* What the claim says of the Contract of the sample file.
SampleAsClaimed(contract) ==
    /\ contract.docstring # None
    /\ ContainsTokens(contract.docstring.text,
                      << "ERC20", " ", "Token", " ", "Implementation" >>)
    /\ NamesOf(contract.external_functions \o contract.internal_functions)
           = << << "transfer" >>, << "balance_of" >> >>
    /\ contract.external_functions[1].return_type = StrType(<< "bool" >>)
    /\ contract.external_functions[1].params
           = << [name |-> << "to" >>, type |-> StrType(<< "address" >>)],
                [name |-> << "amount" >>, type |-> StrType(<< "uint256" >>)] >>

\* C16: every function definition `@external`/`@internal def name(params)
\* -> ret:` that a triple-quoted block follows is extracted as a Function
\* with that name, its parameters in declared order with their types, the
\* return type ret and the text of the block as docstring; the Contract of
\* the ERC20 sample has a docstring that contains "ERC20 Token
\* Implementation" and exactly the functions transfer and balance_of, in
\* that order, transfer returning bool with an address and a uint256.
C16_DocumentedFunctionExtracted ==
    pc = "done" =>
        /\ raised = NoException
        /\ \A k \in 1..Len(contracts) :
               /\ DocumentedFunctionsExtracted(contracts[k], TextOf(contracts[k].path))
               /\ TextOf(contracts[k].path) = sample_contract
                      => SampleAsClaimed(contracts[k])

\* The sample file was parsed, with its two documented functions.
C16_SampleParsed ==
    /\ pc = "done" /\ Len(contracts) = 1
    /\ TextOf(contracts[1].path) = sample_contract
    /\ Cardinality({i \in 1..Len(sample_contract) : IsDocumentedAt(sample_contract, i)}) = 2
    /\ Len(contracts[1].external_functions) = 2

\* ====================================== _extract_enums called on a text

\* enum Status:
\*     PENDING
LinesEnumStatus ==
    <<"enum", " ", "Status", ":", "\n", " ", " ", " ", " ", "PENDING">>

\* enum Kind:
\*     OPEN
LinesEnumKind ==
    <<"enum", " ", "Kind", ":", "\n", " ", " ", " ", " ", "OPEN">>

\*     COMPLETED
LineValue ==
    <<" ", " ", " ", " ", "COMPLETED">>

\* xenum Note:
\*     A
LinesXenum ==
    <<"xenum", " ", "Note", ":", "\n", " ", " ", " ", " ", "A">>

EnumLines == {LinesEnumStatus, LinesEnumKind, LinesXenum, LineValue, LineOwner, LineBlank}

EnumTexts == {Join(ls, "\n") : ls \in SeqsUpTo(EnumLines, MaxLines)}

\* VyperParser._extract_enums(content)
CallExtractEnums ==
    /\ entry = "_extract_enums" /\ pc = "call"
    /\ Returned([err |-> NoException, val |-> extract_enums(content), warns |-> << >>])
    /\ UNCHANGED << outVars, entry, files, fidx, content, funcVars, kw, scanVars, variables,
                    var_origin, contracts, arg >>

InitEnums ==
    /\ entry = "_extract_enums"
    /\ pc = "call"
    /\ files = << >>
    /\ content \in EnumTexts
    /\ arg = << >>
    /\ Idle

NextEnums == CallExtractEnums

SpecEnums == InitEnums /\ [][NextEnums]_vars

\* ---- the enum declarations of a text, as the claim reads them

\* enum Name:
IsEnumHeader(line) ==
    Len(line) = 4 /\ line[1] = "enum" /\ line[2] = " " /\ IsWord(line[3]) /\ line[4] = ":"

\* An indented line that holds one identifier.
IsValueLine(line) ==
    Len(line) >= 2 /\ line[1] = " " /\ Len(Strip(line)) = 1 /\ IsWord(Strip(line)[1])

\* The identifiers declared by the lines from line j on, up to the first
\* line that is not a value.
RECURSIVE DeclaredValues(_, _)
DeclaredValues(lines, j) ==
    IF j > Len(lines) \/ ~IsValueLine(lines[j]) THEN << >>
    ELSE << Strip(lines[j]) >> \o DeclaredValues(lines, j + 1)

RECURSIVE DeclaredEnumsFrom(_, _)
DeclaredEnumsFrom(lines, j) ==
    IF j > Len(lines) THEN << >>
    ELSE (IF IsEnumHeader(lines[j])
          THEN << [name |-> << lines[j][3] >>, values |-> DeclaredValues(lines, j + 1)] >>
          ELSE << >>)
         \o DeclaredEnumsFrom(lines, j + 1)

DeclaredEnums(text) == DeclaredEnumsFrom(SplitLines(text), 1)

\* C17: _extract_enums returns one Enum for every enum declaration of the
\* source, in source order, whose values are the identifiers declared in the
\* body of that enum, in order and each once; what belongs to the declaration
\* that follows is in no list of values, and no later enum is missed.
C17_OneEnumPerDeclaration ==
    (pc = "done" /\ entry = "_extract_enums") =>
        /\ result.val = DeclaredEnums(content)
        /\ \A k \in 1..Len(result.val) : IsInjective(result.val[k].values)

\* _extract_enums ran on a text in which a second enum follows the first.
C17_TwoEnumsDeclared ==
    /\ pc = "done" /\ entry = "_extract_enums"
    /\ Len(DeclaredEnums(content)) = 2
    /\ DeclaredEnums(content)[1].values # << >>

\* A word that ends in the letters enum, and is not the keyword of an enum
\* header, stands in a line before the first enum header.
EnumLettersBeforeHeader(lines) ==
    \E k \in 1..Len(lines) :
        /\ \A j \in 1..k : ~IsEnumHeader(lines[j])
        /\ \E i \in 1..Len(lines[k]) : EndsWith(lines[k][i], "enum")

\* What holds of _extract_enums when no such word comes first: the first
\* declared enum is returned first, under its name, and its declared values
\* are the first values returned.
FirstEnumReturned ==
    (pc = "done" /\ entry = "_extract_enums" /\ DeclaredEnums(content) # << >>
     /\ ~EnumLettersBeforeHeader(SplitLines(content))) =>
        /\ result.val # << >>
        /\ result.val[1].name = DeclaredEnums(content)[1].name
        /\ Len(result.val[1].values) >= Len(DeclaredEnums(content)[1].values)
        /\ SubSeq(result.val[1].values, 1, Len(DeclaredEnums(content)[1].values))
               = DeclaredEnums(content)[1].values

\* ================================= SphinxGenerator.generate on Contracts

\* The longest list of contracts given to generate.
MaxContracts == 3

\* Event(name, params), lines 145-150.
Event(name, params) == [name |-> name, params |-> params]

\* DynArray[uint256, MAX]
TypeArrayMax ==
    << "DynArray", "[", "uint256", ",", " ", "MAX", "]" >>

\* def f(b: DynArray[uint256, 10]) -> bool, with a docstring
FunctionF ==
    Function(<< "f" >>, << ParameterPostInit(<< "b" >>, StrType(TypeArrayUint)).val >>,
             StrType(<< "bool" >>), StrType(<< "Counts", ".">>)).val

\* def g(c: DynArray[uint256, MAX], a: address) -> (uint256, bool)
FunctionG ==
    Function(<< "g" >>,
             << ParameterPostInit(<< "c" >>, StrType(TypeArrayMax)).val,
                ParameterPostInit(<< "a" >>, StrType(<< "address" >>)).val >>,
             StrType(<< "(", "uint256", ",", " ", "bool", ")" >>), None).val

\* A contract of functions with array parameters.
TokenContract ==
    Contract(<< "token" >>, << "token", ".", "vy" >>, StrType(<< "Token" >>), << >>, << >>,
             << >>, << >>, << >>, << FunctionF >>, << FunctionG >>)

\* A contract of declarations.
VaultContract ==
    Contract(<< "Vault" >>, << "Vault", ".", "vy" >>, None,
             << [name |-> << "Status" >>,
                 values |-> << << "PENDING" >>, << "COMPLETED" >> >>] >>,
             << [name |-> << "S" >>,
                 fields |-> << [name |-> << "a" >>, type |-> StrType(<< "uint256" >>)] >>] >>,
             << >>,
             << Constant(<< "MAX" >>, StrType(<< "uint256" >>), StrType(<< "10" >>)).val >>,
             << [name |-> << "owner" >>, type |-> << "address" >>, visibility |-> "public"],
                [name |-> << "balance" >>, type |-> << "uint256" >>,
                 visibility |-> "private"] >>,
             << >>, << >>)

\* A contract that declares an event.
EventsContract ==
    Contract(<< "nested_token" >>, << "nested_token", ".", "vy" >>, None,
             << >>, << >>,
             << Event(<< "Transfer" >>,
                      << EventParameter(<< "to" >>, << "address" >>, TRUE).val,
                         EventParameter(<< "value" >>, << "uint256" >>, FALSE).val >>) >>,
             << >>, << >>, << >>, << >>)

\* A contract of nothing, of a name.
EmptyContract(name) ==
    Contract(name, name \o << ".", "vy" >>, None, << >>, << >>, << >>, << >>, << >>, << >>,
             << >>)

\* Contracts of the names x, a/b, ../up and the long name: with .rst after
\* it, only the first is the name of a file that can be in docs_dir.
NamedContracts ==
    {EmptyContract(<< "x" >>),
     EmptyContract(<< "a", "/", "b" >>),
     EmptyContract(<< ".", ".", "/", "up" >>),
     EmptyContract(<< LongName >>)}

GivenContracts == {TokenContract, VaultContract, EventsContract, EmptyContract(<< "x" >>)}

ContractLists == SeqsUpTo(GivenContracts, MaxContracts)

\* SphinxGenerator(output_dir).generate(contracts) entered with one of the
\* lists.
GenerateEntered(lists) ==
    /\ entry = "generate"
    /\ pc = "generator"
    /\ files = << >>
    /\ content = << >>
    /\ arg = << >>
    /\ contracts \in lists
    /\ contracts_dir_exists = TRUE
    /\ tree = FlatDirectory(files)
    /\ fidx = 1
    /\ fi = 1 /\ external_functions = << >> /\ internal_functions = << >>
    /\ kw = NoKw
    /\ li = 1 /\ inside_function = FALSE /\ contract_level_lines = << >> /\ origin = << >>
    /\ variables = << >> /\ var_origin = << >>
    /\ result = NoResult
    /\ raised = NoException /\ warnings = << >>
    /\ disk = InitialDisk /\ ci = 1
    /\ resolved = << >>

InitGenerate == GenerateEntered(ContractLists)

\* generate entered with contracts of the names.
InitNames == GenerateEntered(SeqsUpTo(NamedContracts, MaxContracts))

NextGenerate ==
    \/ MakeGenerator
    \/ GenerateConf
    \/ GenerateIndex
    \/ GenerateContractDoc
    \/ ReturnGenerate

SpecGenerate == InitGenerate /\ [][NextGenerate]_vars

SpecNames == InitNames /\ [][NextGenerate]_vars

\* ---- the documents the claim expects

\* The file of a name in the docs directory, if it is there.
HasFile(name) == IsFile(disk, DirOf(DocsDir), name)

FileContent(name) ==
    disk.files[CHOOSE i \in 1..Len(disk.files) :
                   disk.files[i].dir = DirOf(DocsDir) /\ disk.files[i].name = name].content

\* The lines of the index after the toctree options.
IndexEntries == SubSeq(FileContent(<< "index", ".", "rst" >>), Len(INDEX_RST) + 1,
                       Len(FileContent(<< "index", ".", "rst" >>)))

\* The names a text lists, one to a line.
ListedNames(text) ==
    Let(SplitLines(text), LAMBDA ls :
        [k \in 1..Len(ls) |-> Strip(ls[k])])

\* The documents of the directory that are named after a contract.
ContractDocuments ==
    {disk.files[i].name : i \in {j \in 1..Len(disk.files) : disk.files[j].dir = DirOf(DocsDir)}}
    \ {<< "index", ".", "rst" >>, << "conf", ".", "py" >>}

\* C18: generate completes without failing for every list of Contracts, the
\* ones with events and with arrays bounded by an int or by a constant
\* included; it writes one document for every Contract, named after it, and
\* an index that lists the names of the contracts in the order of the list.
C18_GenerateCompletes ==
    (entry = "generate") =>
        /\ pc # "raised"
        /\ pc = "done" =>
              /\ ContractDocuments
                     = {contracts[k].name \o << ".", "rst" >> : k \in 1..Len(contracts)}
              /\ HasFile(<< "index", ".", "rst" >>)
              /\ ListedNames(IndexEntries) = [k \in 1..Len(contracts) |-> contracts[k].name]

\* generate was given a contract with an event after a contract with arrays
\* of both bounds, and the document of the first was written.
C18_EventsContractGiven ==
    /\ entry = "generate" /\ pc \in {"done", "raised"}
    /\ Len(contracts) = 2
    /\ contracts[1] = TokenContract /\ contracts[2] = EventsContract
    /\ HasFile(<< "token", ".", "rst" >>)

\* Whether the name with .rst after it is the name of a file: no "/" is
\* in it and it is no longer than the name of a file may be.
IsFileName(name) ==
    /\ \A i \in 1..Len(name) : name[i] # "/"
    /\ Utf8Len(name \o << ".", "rst" >>) <= NAME_MAX

\* What holds of generate: it fails only at a contract with events or of a
\* name that is not the name of a file, and for a list without events it
\* ends with the documents of the contracts of such a name, and the index.
GenerateCompletesWithoutEvents ==
    (entry = "generate") =>
        /\ pc = "raised" =>
               \E k \in 1..Len(contracts) :
                   contracts[k].events # << >> \/ ~IsFileName(contracts[k].name)
        /\ (pc = "done") =>
              /\ \A k \in 1..Len(contracts) : contracts[k].events = << >>
              /\ ContractDocuments
                     = {contracts[k].name \o << ".", "rst" >> :
                           k \in {j \in 1..Len(contracts) : IsFileName(contracts[j].name)}}
              /\ HasFile(<< "index", ".", "rst" >>)
              /\ ListedNames(IndexEntries) = [k \in 1..Len(contracts) |-> contracts[k].name]

\* ============== a type expression resolved, rendered and resolved again

\* The type expressions: scalar names, tuples in parentheses and DynArrays.
TypeExpressions ==
    {<<"uint256">>, <<"address">>, <<"bool">>,
     TypeArrayUint, TypeArrayAddress, TypeArrayBool, TypeArrayMax}
    \cup {ParenList(Spaced(ts, 1)) : ts \in SeqsUpTo(TupleElemTypes, MaxTupleElems) \ {<< >>}}

\* The two places that resolve a type expression: the type of a Parameter
\* (lines 110-121) and the return type of a Function (lines 170-175).
ResolveSites == {"Parameter", "Function"}

\* The Type the dataclass of the site makes of a text.
ResolveAt(site, text) ==
    IF site = "Parameter"
    THEN Let(ParameterPostInit(<< "a" >>, StrType(text)), LAMBDA r :
             [r EXCEPT !.val = IF r.err = NoException THEN r.val.type ELSE None])
    ELSE Let(Function(<< "f" >>, << >>, StrType(text), None), LAMBDA r :
             [r EXCEPT !.val = r.val.return_type])

\* What one resolution leaves: the exception, or one more resolved Type.
Resolved(r) ==
    /\ result' = r
    /\ warnings' = warnings \o r.warns
    /\ IF r.err # NoException
       THEN /\ raised' = r.err /\ pc' = "raised"
            /\ UNCHANGED resolved
       ELSE /\ resolved' = Append(resolved, r.val)
            /\ pc' = IF Len(resolved) = 0 THEN "render" ELSE "done"
            /\ UNCHANGED raised

\* Parameter("a", content) or Function("f", [], content, None)
Resolve ==
    /\ entry \in ResolveSites /\ pc = "resolve"
    /\ Resolved(ResolveAt(entry, content))
    /\ UNCHANGED << entry, files, fidx, content, funcVars, kw, scanVars, variables,
                    var_origin, contracts, arg, contracts_dir_exists, tree, disk, ci >>

\* f"{p.type}" of generator.py line 125, f"{func.return_type}" of line 126
Render ==
    /\ entry \in ResolveSites /\ pc = "render"
    /\ content' = FormatType(resolved[1])
    /\ pc' = "resolve"
    /\ UNCHANGED << entry, files, fidx, funcVars, kw, scanVars, variables, var_origin,
                    contracts, callVars, raised, warnings, outVars >>

InitRoundTrip ==
    /\ entry \in ResolveSites
    /\ pc = "resolve"
    /\ files = << >>
    /\ arg \in TypeExpressions
    /\ content = arg
    /\ Idle

NextRoundTrip == Resolve \/ Render

SpecRoundTrip == InitRoundTrip /\ [][NextRoundTrip]_vars

\* C19: a type expression that is resolved, written as the renderer writes
\* the resolved type, and resolved again from that text gives a Type equal
\* to the first one.
C19_RoundTrip ==
    (entry \in ResolveSites /\ pc \in {"done", "raised"}) =>
        /\ pc = "done"
        /\ Len(resolved) = 2
        /\ resolved[2] = resolved[1]

\* The round trip of DynArray[uint256, 10] as the type of a Parameter ended.
C19_ArrayRoundTripEnded ==
    /\ entry = "Parameter" /\ pc \in {"done", "raised"}
    /\ arg = TypeArrayUint
    /\ Len(resolved) >= 1
    /\ resolved[1].kind = "DynArray"

\* What holds of the round trip: a Type that is a str comes back equal, and
\* so does every expression at a site that keeps it as a str; a DynArray
\* does not resolve again, a Tuple comes back as a str.
StrRoundTrip ==
    (entry \in ResolveSites /\ pc \in {"done", "raised"}) =>
        /\ Len(resolved) >= 1
        /\ resolved[1].kind = "str" => pc = "done" /\ resolved[2] = resolved[1]
        /\ resolved[1].kind = "DynArray" => pc = "raised" /\ raised = "AssertionError"
        /\ resolved[1].kind = "Tuple" => pc = "done" /\ resolved[2].kind = "str"

\* ================== the line scan of _extract_variables, line by line

\*     def g():          (indented)
LineDefIndented ==
    <<" ", " ", "def", " ", "g", "(", ")", ":">>

\* default: uint256      (begins with the letters def, not with "def ")
LineDefault ==
    <<"default", ":", " ", "uint256">>

\* A line of two spaces.
LineSpaces ==
    <<" ", " ">>

\* A line that holds a form feed, the page break of a source file:
\* str.splitlines() ends a line at it.
LineFeed ==
    << "\f" >>

ScanLines ==
    {LineOwner, LineDecorator, LineDef, LineDefIndented, LineDefault, LineLocal,
     LineBlank, LineSpaces, LineNoBreak, LineFeed}

ScanTexts == {Join(ls, "\n") : ls \in SeqsUpTo(ScanLines, MaxLines)}

\* VyperParser._extract_variables(content) on a text.
InitScan ==
    /\ entry = "_extract_variables"
    /\ pc = "scan"
    /\ files = << >>
    /\ content \in ScanTexts
    /\ arg = << >>
    /\ Idle

SpecScan == InitScan /\ [][NextVariables]_vars

\* ---- the flag as the claim states it

\* A line of white space only.
IsBlankLine(line) == \A k \in 1..Len(line) : line[k] \in SpaceTokens

\* A line whose first text is "@" or "def ".
IsStartLine(line) ==
    \E k \in 1..Len(line) :
        /\ \A h \in 1..(k - 1) : line[h] \in SpaceTokens
        /\ \/ line[k] = "@"
           \/ line[k] = "def" /\ k < Len(line) /\ line[k + 1] = " "

\* Among the first n lines there is a function start with no blank line
\* after the last one.
StartedAndNotEnded(lines, n) ==
    \E j \in 1..n :
        /\ IsStartLine(lines[j])
        /\ \A k \in (j + 1)..n : ~IsStartLine(lines[k]) /\ ~IsBlankLine(lines[k])

\* C20: in the line scan of _extract_variables, after any prefix of the
\* lines inside_function is true exactly when the prefix holds a line that
\* starts a function (its stripped text begins with "@" or "def ") and no
\* blank line comes after the last such line; a line that is neither leaves
\* the flag as it was.
C20_FlagFollowsPrefix ==
    (entry = "_extract_variables") =>
        /\ inside_function = StartedAndNotEnded(SplitLines(content), li - 1)
        /\ (li > 1 /\ ~IsStartLine(SplitLines(content)[li - 1])
                   /\ ~IsBlankLine(SplitLines(content)[li - 1])) =>
              inside_function = StartedAndNotEnded(SplitLines(content), li - 2)

\* The scan went through a function start, a line of its body that kept the
\* flag, and a line of spaces that reset it.
C20_FlagSetKeptReset ==
    /\ entry = "_extract_variables" /\ pc = "scan" /\ li = 4
    /\ IsStartLine(SplitLines(content)[1])
    /\ SplitLines(content)[2] = LineLocal
    /\ SplitLines(content)[3] = LineSpaces
    /\ ~inside_function

\* ---- the lines handed to the matcher, as the claim states them

\* The lines among the first n that are not blank and were scanned with the
\* flag false, the transition of the line itself applied: their numbers, in
\* source order.
RECURSIVE LinesOutsideFunctions(_, _)
LinesOutsideFunctions(lines, n) ==
    IF n = 0 THEN << >>
    ELSE LinesOutsideFunctions(lines, n - 1)
         \o (IF ~IsBlankLine(lines[n]) /\ ~StartedAndNotEnded(lines, n)
             THEN << n >> ELSE << >>)

\* The text of the lines of the given numbers, each without the white
\* space around it, joined by line ends.
TextOfLines(lines, numbers) ==
    Join([k \in 1..Len(numbers) |-> Strip(lines[numbers[k]])], "\n")

\* C21: the text _extract_variables hands to the matcher of variable
\* declarations is the non-blank lines scanned while the flag was false (the
\* transition of the line itself applied), in source order and nothing
\* else: no line scanned while the flag is true, the line that starts a
\* function and holds its parameters included, is part of it.
C21_OnlyLinesOutsideFunctions ==
    (entry = "_extract_variables") =>
        /\ origin = LinesOutsideFunctions(SplitLines(content), li - 1)
        /\ Join(contract_level_lines, "\n") = TextOfLines(SplitLines(content), origin)
        /\ \A k \in 1..Len(origin) :
              ~IsStartLine(SplitLines(content)[origin[k]])

\* The matcher was handed the one line before a def line with a parameter
\* and a line of its body, both left out.
C21_FunctionLinesLeftOut ==
    /\ entry = "_extract_variables" /\ pc = "done"
    /\ SplitLines(content) = << LineOwner, LineDef, LineLocal >>
    /\ contract_level_lines = << LineOwner >>

\* ---- constants and variables of one Contract

\* A Variable of the contract has the name of one of its constants.
NamedAsConstant(contract, v) ==
    \E k \in 1..Len(contract.constants) : contract.constants[k].name = v.name

\* C22: a constant declaration NAME: constant(T) = value at contract level
\* is reported in Contract.constants only: no Contract holds a Variable that
\* has the name of one of its constants, and no Variable has the type
\* constant.
C22_ConstantIsNoVariable ==
    (entry = "parse_contracts" /\ pc = "done") =>
        \A c \in 1..Len(contracts) :
            \A k \in 1..Len(contracts[c].variables) :
                /\ ~NamedAsConstant(contracts[c], contracts[c].variables[k])
                /\ contracts[c].variables[k].type # << "constant" >>

\* parse_contracts returned for a file whose only line declares the constant
\* MAX, and the Contract has the Constant.
C22_ConstantDeclared ==
    /\ entry = "parse_contracts" /\ pc = "done"
    /\ Len(files) = 1 /\ files[1].text = LineConstant
    /\ Len(contracts) = 1
    /\ Len(contracts[1].constants) = 1
    /\ contracts[1].constants[1].name = << "MAX" >>

\* What holds of the two lists: every declared constant is in
\* Contract.constants, and a Variable that has the name of a constant has
\* the type constant.
ConstantVariableHasTypeConstant ==
    (entry = "parse_contracts" /\ pc = "done") =>
        \A c \in 1..Len(contracts) :
            \A k \in 1..Len(contracts[c].variables) :
                NamedAsConstant(contracts[c], contracts[c].variables[k])
                    => contracts[c].variables[k].type = << "constant" >>
====
